---- MODULE Spec2Model ----
(***************************************************************************)
(* Model of yfinance-ts: the HTTP transport (HttpClient, curl-cffi         *)
(* variant of src/src/utils/http.ts, lines 120-894) with its crumb/cookie  *)
(* authentication engine, and the streaming client (YahooWebSocket,        *)
(* src/src/core/websocket.ts).                                             *)
(***************************************************************************)
EXTENDS Integers, Sequences, FiniteSets, TLC

(***************************************************************************)
(* Bounds of the model.                                                    *)
(***************************************************************************)
\* largest value of the `retries` option a caller passes to the constructor
MaxRetriesInput == 3

\* http.ts:158  retries: config.retries || 3
DefaultRetries == 3
\* http.ts:159  retryDelay: config.retryDelay || 1000
DefaultRetryDelay == 1000

VARIABLES
    config,          \* HttpClient.config: [retries, retryDelay]; cookieJar is
                     \* left at its default, true (http.ts:163)
    crumb,           \* HttpClient.crumb (NULL when absent)
    cookieStrategy,  \* HttpClient.cookieStrategy: "basic" | "csrf"
    cookieJar,       \* HttpClient.cookieJar: set of stored cookies
    cookieFile,      \* the persisted cookie file (config.cookieJarPath)
    stack,           \* activations of makeRequest, innermost last
    auth,            \* activation of _getCookieAndCrumb (pc = "idle" when none)
    ret,             \* value handed back by the makeRequest that just ended
    last,            \* outcome of the request a caller of the client made last
    fails,           \* consecutive failed runs of one strategy: [strategy, n]
    outbound         \* the call handed to client.request in the last step:
                     \* its URL, its crumb query parameter (NULL for none)
                     \* and the pacing delay awaited before it

httpVars == <<config, crumb, cookieStrategy, cookieJar, cookieFile,
              stack, auth, ret, last, fails, outbound>>

\* the streaming client (YahooWebSocket, websocket.ts:30-36)
VARIABLES
    options,            \* [autoReconnect, reconnectInterval, maxReconnectAttempts]
    ws,                 \* this.ws: a socket id, 0 for null
    isConnected,        \* this.isConnected
    reconnectAttempts,  \* this.reconnectAttempts
    heartbeatTimer,     \* this.heartbeatTimer: an interval id, 0 for undefined
    reconnectTimer,     \* this.reconnectTimer: a timer id, 0 for undefined
    sockets,            \* the WebSocket objects created so far, by id
    heartbeats,         \* ids of the setInterval timers still running
    rtimers,            \* the timers _scheduleReconnect created, by id
    emitted,            \* events the client emitted in the last step
    returned,           \* disconnect() calls that returned in the last step
    clean,              \* the last disconnect() ended in a closure with code 1000
                        \* and connect() was not called since
    subscribedSymbols,  \* this.subscribedSymbols: a Set, in insertion order
    sent,               \* messages handed to ws.send() in the last step
    called,             \* the subscribe()/unsubscribe() call made in the last
                        \* step: [op, symbols, thrown]
    handled             \* the _handleMessage call made in the last step: the
                        \* frame, the events it emitted, whether it raised

\* the cookie store seen on its own: the clock and one exchange of a request
VARIABLES
    now,        \* Date.now() / 1000, counted in half seconds
    exchange,   \* the request under way or just answered: its URL, the cookies
                \* attached to it (with the time), the Set-Cookie list received
    reads,      \* times this HttpClient read an existing cookie file
    inflight    \* the makeRequest calls callers have under way at once, by
                \* caller: where each stands, its local `retries`, what
                \* this.crumb and the jar were when its authentication
                \* returned, and the crumb on the call it sent

jarVars == <<now, exchange, reads, inflight>>

\* AsyncYahooWebSocket: the bridge from events to an async iterator
VARIABLES
    messageQueue,   \* this.messageQueue: tagged messages nobody waited for
    resolveQueue,   \* this.resolveQueue: the resolve functions of the promises
                    \* messages() yielded, each named by its generator
    generators,     \* the messages() generators: where each stands (idle
                    \* between next() calls, awaiting the promise it made, or
                    \* holding a settled value to yield) and the value
    delivered,      \* what each generator's consumer has received, in order
    underlying      \* the events the wrapped YahooWebSocket has emitted

bridgeVars == <<messageQueue, resolveQueue, generators, delivered, underlying>>

wsVars == <<options, ws, isConnected, reconnectAttempts, heartbeatTimer,
            reconnectTimer, sockets, heartbeats, rtimers, emitted, returned, clean,
            subscribedSymbols, sent, called, handled>>

vars == <<outbound, config, crumb, cookieStrategy, cookieJar, cookieFile,
          stack, auth, ret, last, fails,
          options, ws, isConnected, reconnectAttempts, heartbeatTimer,
          reconnectTimer, sockets, heartbeats, rtimers, emitted, returned, clean,
            subscribedSymbols, sent, called, handled, now, exchange, reads, inflight,
          messageQueue, resolveQueue, generators, delivered, underlying>>

NULL == "null"

(***************************************************************************)
(* URLs: hostname as labels, pathname as segments.                         *)
(***************************************************************************)
Url(h, p) == [host |-> h, path |-> p]

UrlQuote    == Url(<<"query1", "finance", "yahoo", "com">>, <<"v7", "finance", "quote">>)
UrlPage     == Url(<<"finance", "yahoo", "com">>, <<"quote", "AAPL">>)
UrlForeign  == Url(<<"example", "com">>, <<"v7", "finance", "quote">>)
\* the endpoints the authentication strategies visit
UrlFc       == Url(<<"fc", "yahoo", "com">>, <<>>)
UrlCrumb1   == Url(<<"query1", "finance", "yahoo", "com">>, <<"v1", "test", "getcrumb">>)
UrlConsent  == Url(<<"guce", "yahoo", "com">>, <<"consent">>)
UrlCollect  == Url(<<"consent", "yahoo", "com">>, <<"v2", "collectConsent">>)
UrlCopy     == Url(<<"guce", "yahoo", "com">>, <<"copyConsent">>)
UrlCrumb2   == Url(<<"query2", "finance", "yahoo", "com">>, <<"v1", "test", "getcrumb">>)

\* URLs callers of the client request
UserUrls == {UrlQuote, UrlPage, UrlForeign}

\* s.includes(a + sep + b), on label/segment sequences
HasPair(s, a, b) == \E i \in 1..(Len(s) - 1) : s[i] = a /\ s[i + 1] = b
\* pathname.includes('/a/b/'): the pair followed by a further segment
HasDir(p, a, b) == \E i \in 1..(Len(p) - 2) : p[i] = a /\ p[i + 1] = b

\* the classification looking at the hostname only
isYahooFinanceApiRequestAnyPath(url) == HasPair(url.host, "yahoo", "com")

\* http.ts:873-884
isYahooFinanceApiRequest(url) ==
    /\ HasPair(url.host, "yahoo", "com")
    /\ \/ HasDir(url.path, "v7", "finance")
       \/ HasDir(url.path, "v10", "finance")
       \/ HasDir(url.path, "v1", "finance")
       \/ HasDir(url.path, "ws", "fundamentals")

(***************************************************************************)
(* What the network can answer to one outbound call.                       *)
(***************************************************************************)
\* errors client.request rejects with: no response (network error) or an
\* HTTP status carried in error.response.status
NetworkError == [response |-> FALSE, status |-> 0, message |-> "network"]
HttpError(s) == [response |-> TRUE, status |-> s, message |-> "http"]
Statuses == {404, 408, 429, 500, 503}
Errors == {NetworkError} \cup {HttpError(s) : s \in Statuses}
\* http.ts:612
MaxRetriesError == [response |-> FALSE, status |-> 0, message |-> "Max retries exceeded"]

\* response bodies: empty, the rate-limit page, a crumb (with
\* whitespace around it) and the consent form carrying csrfToken/sessionId
Bodies == {"", "Too Many Requests", " crumb1\n", "<consent form>"}

\* String.prototype.trim on the bodies above
Trim(b) == IF b = " crumb1\n" THEN "crumb1" ELSE b
\* body.includes('Too Many Requests')
IsRateLimited(b) == b = "Too Many Requests"
\* both consent-page patterns match (http.ts:743-744)
HasConsentTokens(b) == b = "<consent form>"

\* shouldRetry taking every failure for a temporary one
shouldRetryAlways(error) == TRUE

\* http.ts:482-490
shouldRetry(error) ==
    IF ~error.response
    THEN TRUE
    ELSE \/ error.status >= 500
         \/ error.status = 429
         \/ error.status = 408
         \/ error.status = 503

(***************************************************************************)
(* Cookie store.  The jar is a set of cookies, at most one per domain and  *)
(* name (cookieJar[domain][name]); the cookie file is the set of its       *)
(* lines.  Times are counted in half seconds, so that Date.now() / 1000    *)
(* may fall between two whole seconds.                                     *)
(***************************************************************************)
\* a property or attribute that is absent (JS undefined)
undefined == -1
Seconds(n) == 2 * n
\* the root path '/', and the Path / Domain attribute left out
Root == <<>>
NoPath == <<"undefined">>
NoDomain == <<>>

\* `${n}`: the decimal text of a number of seconds, and parseInt of it
\* (http.ts:234), which stops at the decimal point
Text(e) == [whole |-> e \div 2, half |-> e % 2]
parseInt(t) == Seconds(t.whole)
Bool(b) == IF b THEN "TRUE" ELSE "FALSE"
\* !x for an expiration: undefined and 0 are falsy
Falsy(x) == x = undefined \/ x = 0

\* a Set-Cookie header: name=value and its attributes (maxAge in seconds,
\* expires as the epoch second of the date)
Directive(n, v) ==
    [name |-> n, value |-> v, path |-> NoPath, domain |-> NoDomain,
     secure |-> FALSE, httpOnly |-> FALSE, maxAge |-> undefined, expires |-> undefined]

\* http.ts:428-470, at time t
parseSetCookie(d, t) ==
    [name |-> d.name, value |-> d.value, path |-> d.path, domain |-> d.domain,
     secure |-> d.secure, httpOnly |-> d.httpOnly,
     expiration |-> IF d.maxAge # undefined THEN t + Seconds(d.maxAge)
                    ELSE IF d.expires # undefined THEN Seconds(d.expires)
                    ELSE undefined]

\* http.ts:339-348 with a cookie that keeps the entry it replaces
putKeepsOld(jar, domain, c) ==
    jar \cup {[domain |-> domain, name |-> c.name, value |-> c.value,
               path |-> IF c.path = NoPath THEN Root ELSE c.path,
               secure |-> c.secure, httpOnly |-> c.httpOnly,
               expiration |-> c.expiration]}

\* http.ts:339-348: this.cookieJar[domain][cookie.name] = {...}
put(jar, domain, c) ==
    {x \in jar : ~(x.domain = domain /\ x.name = c.name)}
        \cup {[domain |-> domain, name |-> c.name, value |-> c.value,
               path |-> IF c.path = NoPath THEN Root ELSE c.path,
               secure |-> c.secure, httpOnly |-> c.httpOnly,
               expiration |-> c.expiration]}

\* http.ts:336-350: the loop over the Set-Cookie headers
RECURSIVE storeAll(_, _, _, _)
storeAll(jar, domain, directives, t) ==
    IF directives = <<>> THEN jar
    ELSE storeAll(put(jar, domain, parseSetCookie(Head(directives), t)),
                  domain, Tail(directives), t)

\* http.ts:326-354: every cookie is stored under the request's hostname
updateCookiesFromResponse(jar, url, response, t) ==
    storeAll(jar, url.host, response.setCookies, t)

\* domain.endsWith('.' + cookieDomain), on labels
EndsWith(host, d) ==
    /\ Len(d) >= 1
    /\ Len(d) < Len(host)
    /\ SubSeq(host, Len(host) - Len(d) + 1, Len(host)) = d
\* path.startsWith(c.path), on segments
StartsWith(path, prefix) ==
    /\ Len(prefix) <= Len(path)
    /\ SubSeq(path, 1, Len(prefix)) = prefix

\* http.ts:299-320: the cookies whose name=value is pushed, at time t
getCookiesForUrl(jar, url, t) ==
    {c \in jar : /\ url.host = c.domain \/ EndsWith(url.host, c.domain)
                 /\ Falsy(c.expiration) \/ c.expiration > t
                 /\ StartsWith(url.path, c.path)}

\* http.ts:276-291: one line per cookie
serializeCookies(jar) ==
    {[domain |-> c.domain, flag |-> Bool(c.httpOnly), path |-> c.path,
      secure |-> Bool(c.secure),
      expiration |-> Text(IF Falsy(c.expiration) THEN 0 ELSE c.expiration),
      name |-> c.name, value |-> c.value] : c \in jar}

\* http.ts:222-253
parseCookieFile(file) ==
    {[domain |-> l.domain, name |-> l.name, value |-> l.value, path |-> l.path,
      secure |-> l.secure = "TRUE", httpOnly |-> l.flag = "TRUE",
      expiration |-> parseInt(l.expiration)] : l \in file}

\* http.ts:194-220: reads the file unless the jar already holds cookies
loadCookies(jar, file) == IF jar # {} THEN jar ELSE parseCookieFile(file)

\* http.ts:255-274: writes the whole jar to the file
saveCookies(jar, file) == serializeCookies(jar)

\* http.ts:659-667, without a domain
clearCookies(jar) == {}

\* http.ts:643-657: setCookie(domain, name, value) with no options
setCookie(jar, domain, name, value) ==
    {x \in jar : ~(x.domain = domain /\ x.name = name)}
        \cup {[domain |-> domain, name |-> name, value |-> value,
               path |-> Root, secure |-> FALSE, httpOnly |-> FALSE,
               expiration |-> undefined]}

\* http.ts:858-867: [cookieStrategy, crumb, cookieJar] after the call
setCookieStrategy(strategy, cur, c, jar) ==
    IF strategy = cur
    THEN <<cur, c, jar>>
    ELSE <<strategy, NULL, clearCookies(jar)>>

\* a response: its body and its Set-Cookie headers, in order
Response(b, c) == [body |-> b, setCookies |-> c]
\* the hosts that answer with a Set-Cookie header (possibly)
CookieHosts == {UrlFc.host, UrlQuote.host}
Responses(url) ==
    {Response(b, c) : b \in Bodies,
                      c \in IF url.host \in CookieHosts
                            THEN {<<>>, <<Directive("A", "v1")>>} ELSE {<<>>}}

(***************************************************************************)
(* Activations.                                                            *)
(***************************************************************************)
\* one call of makeRequest: the local `retries`, where it stands, and what
\* it did so far: network calls issued, delays awaited, crumb/cookie clears,
\* runs of _getCookieAndCrumb (acquisitions)
\* and, for a request made by a caller of the client, the failures of its
\* attempts (`only`: the one error all of them failed with, NoError when
\* none failed yet, Mixed otherwise; `allRetryable`: shouldRetry held for all)
NoError == [response |-> FALSE, status |-> 0, message |-> "none"]
Mixed == [response |-> FALSE, status |-> 0, message |-> "mixed"]
Frame(url) ==
    [url |-> url, retries |-> 0, pc |-> "loop",
     calls |-> 0, delays |-> <<>>, cleared |-> 0, acquisitions |-> 0,
     only |-> NoError, allRetryable |-> TRUE]
Observe(f, error) ==
    [f EXCEPT !.only = IF @ \in {NoError, error} THEN error ELSE Mixed,
              !.allRetryable = @ /\ shouldRetry(error)]

\* http.ts:160: the default of config.rateLimitDelay
RateLimitDelay == 100
\* http.ts:154-192: the constructor does not call setupInterceptors
\* (472-480), so client.request runs no request interceptor
InterceptorInstalled == FALSE
\* the delay awaited between the call of client.request and the network call
Pacing == IF InterceptorInstalled THEN RateLimitDelay ELSE 0
\* http.ts:553-560: the crumb query parameter of a call, NULL for none
CrumbParam(url, c) ==
    IF isYahooFinanceApiRequest(url) /\ c # NULL /\ c # "" THEN c ELSE NULL
\* http.ts:534-579: the call handed to client.request
Outbound(url, c) ==
    [issued |-> TRUE, url |-> url, crumb |-> CrumbParam(url, c), waited |-> Pacing]
NoOutbound == [issued |-> FALSE, url |-> UrlPage, crumb |-> NULL, waited |-> 0]

AuthIdle == [pc |-> "idle", strategy |-> "basic", first |-> TRUE, runs |-> <<>>]
NoRet == [kind |-> "none", error |-> NetworkError, body |-> ""]
RetResponse(r) == [kind |-> "response", error |-> NetworkError, body |-> r.body]
RetThrow(e) == [kind |-> "throw", error |-> e, body |-> ""]
NoLast == [kind |-> "none", error |-> NetworkError, frame |-> Frame(UrlPage)]

Top == stack[Len(stack)]
Pop == SubSeq(stack, 1, Len(stack) - 1)
SetTop(f) == [stack EXCEPT ![Len(stack)] = f]
\* the fallback running the strategy that just failed once more
SameStrategy(s) == s
\* http.ts:803-808, 813-818: the strategy the engine falls back to
Other(s) == IF s = "basic" THEN "csrf" ELSE "basic"


(***************************************************************************)
(* HttpClient: construction and makeRequest (http.ts:512-613).             *)
(***************************************************************************)
RetryDelayInputs == {0, 500}

\* http.ts:154-166: `||` replaces 0 (and undefined) by the default; `given`
\* keeps the retries the caller passed
HttpConfig(retries, retryDelay) ==
    [retries    |-> IF retries = 0 THEN DefaultRetries ELSE retries,
     retryDelay |-> IF retryDelay = 0 THEN DefaultRetryDelay ELSE retryDelay,
     given      |-> retries]

\* cookies an earlier run of the process may have left in the cookie file
PersistedFiles ==
    {{}, serializeCookies(put({}, UrlFc.host, parseSetCookie(Directive("A", "v0"), 0)))}

HttpInit ==
    /\ config \in {HttpConfig(r, d) : r \in 0..MaxRetriesInput, d \in RetryDelayInputs}
    /\ crumb = NULL
    /\ cookieStrategy = "basic"
    /\ cookieJar = {}
    /\ cookieFile \in PersistedFiles
    /\ stack = <<>>
    /\ auth = AuthIdle
    /\ ret = NoRet
    /\ last = NoLast
    /\ fails = [strategy |-> "basic", n |-> 0]
    /\ outbound = NoOutbound

\* a caller invokes get/post/put/delete (http.ts:496-510)
StartRequest ==
    /\ UNCHANGED <<wsVars, jarVars, bridgeVars>>
    /\ outbound' = NoOutbound
    /\ stack = <<>>
    /\ auth.pc = "idle"
    /\ \E url \in UserUrls : stack' = <<Frame(url)>>
    /\ ret' = NoRet
    /\ last' = NoLast
    /\ UNCHANGED <<config, crumb, cookieStrategy, cookieJar, cookieFile, auth, fails>>

\* the makeRequest on top of the stack ends with r (a response or a throw)
Return(f, r) ==
    /\ stack' = Pop
    /\ ret' = r
    /\ last' = IF Len(stack) = 1
               THEN [kind |-> r.kind, error |-> r.error, frame |-> f]
               ELSE last

\* one strategy starts on `base` (the stack below the request it issues):
\* http.ts:829-856 for basic (load the jar, reuse cookies or visit fc.yahoo.com),
\* http.ts:735-739 for csrf (visit the consent page)
BeginStrategy(s, base, first, runs, jar) ==
    LET loaded == IF s = "basic" THEN loadCookies(jar, cookieFile) ELSE jar IN
    /\ cookieJar' = loaded
    /\ auth' = [pc       |-> IF s = "csrf" THEN "csrf.consent"
                             ELSE IF loaded # {} THEN "basic.fc" ELSE "basic.cookie",
                strategy |-> s, first |-> first, runs |-> Append(runs, s)]
    /\ stack' = Append(base, Frame(IF s = "csrf" THEN UrlConsent ELSE UrlFc))

\* http.ts:524-532: loop head; an auth-required URL first runs _getCookieAndCrumb
\* (794-801), every other URL goes on to the outbound call
MakeRequestLoop ==
    /\ UNCHANGED <<wsVars, jarVars, bridgeVars>>
    /\ outbound' = NoOutbound
    /\ stack # <<>>
    /\ Top.pc = "loop"
    /\ IF Top.retries <= config.retries
       THEN IF isYahooFinanceApiRequest(Top.url)
            THEN /\ BeginStrategy(cookieStrategy,
                                  SetTop([Top EXCEPT !.pc = "auth",
                                                     !.acquisitions = @ + 1]),
                                  TRUE, <<>>, cookieJar)
                 /\ UNCHANGED <<ret, last>>
            ELSE /\ stack' = SetTop([Top EXCEPT !.pc = "send"])
                 /\ UNCHANGED <<cookieJar, auth, ret, last>>
       ELSE \* http.ts:612
            /\ Return(Top, RetThrow(MaxRetriesError))
            /\ UNCHANGED <<cookieJar, auth>>
    /\ UNCHANGED <<config, crumb, cookieStrategy, cookieFile, fails>>

\* http.ts:542-591: cookies attached (lazy load), the call succeeds, the jar
\* is updated from the response and saved, the response is returned
MakeRequestSendOk ==
    /\ UNCHANGED <<wsVars, jarVars, bridgeVars>>
    /\ stack # <<>>
    /\ Top.pc = "send"
    /\ outbound' = Outbound(Top.url, crumb)
    /\ \E response \in Responses(Top.url) :
        LET jar == updateCookiesFromResponse(loadCookies(cookieJar, cookieFile),
                                             Top.url, response, now)
            f == [Top EXCEPT !.calls = @ + 1, !.pc = "returned"] IN
        /\ cookieJar' = jar
        /\ cookieFile' = saveCookies(jar, cookieFile)
        /\ Return(f, RetResponse(response))
    /\ UNCHANGED <<config, crumb, cookieStrategy, auth, fails>>

\* the catch block allowing one retry too few
CatchOffByOne(f, error) ==
    IF isYahooFinanceApiRequest(f.url) /\ f.retries < config.retries
    THEN "reauth"
    ELSE IF f.retries < config.retries /\ shouldRetry(error)
         THEN "retry"
         ELSE "throw"

\* the catch block asking shouldRetry before looking at the URL
CatchTransientFirst(f, error) ==
    IF f.retries <= config.retries /\ shouldRetry(error)
    THEN "retry"
    ELSE IF isYahooFinanceApiRequest(f.url) /\ f.retries <= config.retries
                /\ shouldRetry(error)
         THEN "reauth"
         ELSE "throw"

\* http.ts:592-609: the catch block, with `retries` already incremented
Catch(f, error) ==
    IF isYahooFinanceApiRequest(f.url) /\ f.retries <= config.retries
    THEN "reauth"
    ELSE IF f.retries <= config.retries /\ shouldRetry(error)
         THEN "retry"
         ELSE "throw"

\* the same wait before every retry
backoffFlat(retryDelay, retries) == retryDelay

\* http.ts:600, 604: this.config.retryDelay * retries
backoff(retryDelay, retries) == retryDelay * retries

\* http.ts:542-579, 592-609: cookies attached (lazy load), the call fails
MakeRequestSendFail ==
    /\ UNCHANGED <<wsVars, jarVars, bridgeVars>>
    /\ stack # <<>>
    /\ Top.pc = "send"
    /\ outbound' = Outbound(Top.url, crumb)
    /\ \E error \in Errors :
        LET g == IF Len(stack) = 1 THEN Observe(Top, error) ELSE Top
            f == [g EXCEPT !.calls = @ + 1, !.retries = @ + 1]
            loaded == loadCookies(cookieJar, cookieFile)
            delay == backoff(config.retryDelay, f.retries)
            todo == Catch(f, error) IN
        CASE todo = "reauth" ->
                /\ crumb' = NULL
                /\ cookieJar' = clearCookies(loaded)
                /\ stack' = SetTop([f EXCEPT !.pc = "backoff",
                                             !.delays = Append(@, delay),
                                             !.cleared = @ + 1])
                /\ UNCHANGED <<ret, last>>
          [] todo = "retry" ->
                /\ cookieJar' = loaded
                /\ stack' = SetTop([f EXCEPT !.pc = "backoff",
                                             !.delays = Append(@, delay)])
                /\ UNCHANGED <<crumb, ret, last>>
          [] OTHER ->
                /\ cookieJar' = loaded
                /\ Return([f EXCEPT !.pc = "thrown"], RetThrow(error))
                /\ UNCHANGED crumb
    /\ UNCHANGED <<config, cookieStrategy, cookieFile, auth, fails>>

\* http.ts:601, 605: the delay elapses and the loop goes round
MakeRequestBackoff ==
    /\ UNCHANGED <<wsVars, jarVars, bridgeVars>>
    /\ outbound' = NoOutbound
    /\ stack # <<>>
    /\ Top.pc = "backoff"
    /\ stack' = SetTop([Top EXCEPT !.pc = "loop"])
    /\ UNCHANGED <<config, crumb, cookieStrategy, cookieJar, cookieFile, auth, ret, last, fails>>

(***************************************************************************)
(* Authentication engine: _getCookieAndCrumb (http.ts:794-827) and the two *)
(* strategies.  Each strategy step waits for the request it issued.        *)
(***************************************************************************)
\* the request the active strategy issued has ended and handed back `ret`
AuthAt(pc) ==
    /\ auth.pc = pc
    /\ Len(stack) = 1
    /\ Top.pc = "auth"
    /\ ret.kind # "none"

\* the strategy goes on with its next request
AuthNext(pc, url) ==
    /\ auth' = [auth EXCEPT !.pc = pc]
    /\ stack' = Append(stack, Frame(url))
    /\ ret' = NoRet
    /\ UNCHANGED <<crumb, cookieStrategy, cookieJar, last, fails>>

\* consecutive failed runs of one strategy, after strategy s produced c
Failed(s, c) ==
    IF c # NULL THEN [strategy |-> s, n |-> 0]
    ELSE IF fails.strategy = s THEN [strategy |-> s, n |-> fails.n + 1]
    ELSE [strategy |-> s, n |-> 1]

\* http.ts:801-826 and 528-530: the running strategy produced c (NULL: it
\* failed).  The first strategy's failure switches to the other one and runs
\* it; otherwise {crumb, strategy} goes back to makeRequest, which stores both.
StrategyDone(c) ==
    /\ fails' = Failed(auth.strategy, c)
    /\ ret' = NoRet
    /\ last' = last
    /\ IF auth.first /\ c = NULL
       THEN LET set == setCookieStrategy(Other(auth.strategy), cookieStrategy,
                                         crumb, cookieJar) IN
            /\ cookieStrategy' = set[1]
            /\ crumb' = set[2]
            /\ BeginStrategy(Other(auth.strategy), stack, FALSE, auth.runs, set[3])
       ELSE /\ crumb' = c
            /\ cookieStrategy' = auth.strategy
            /\ auth' = [auth EXCEPT !.pc = "idle"]
            /\ stack' = SetTop([Top EXCEPT !.pc = "send"])
            /\ UNCHANGED cookieJar

\* http.ts:837-856 _getCookieBasic after its visit of fc.yahoo.com, then
\* _getCrumbBasic's own visit (716)
AuthBasicCookie ==
    /\ UNCHANGED <<wsVars, jarVars, bridgeVars>>
    /\ outbound' = NoOutbound
    /\ AuthAt("basic.cookie")
    /\ IF ret.kind = "throw"
       THEN StrategyDone(NULL) /\ UNCHANGED cookieFile
       ELSE /\ cookieFile' = saveCookies(cookieJar, cookieFile)
            /\ AuthNext("basic.fc", UrlFc)
    /\ UNCHANGED config

\* http.ts:716-720
AuthBasicFc ==
    /\ UNCHANGED <<wsVars, jarVars, bridgeVars>>
    /\ outbound' = NoOutbound
    /\ AuthAt("basic.fc")
    /\ IF ret.kind = "throw"
       THEN StrategyDone(NULL)
       ELSE AuthNext("basic.crumb", UrlCrumb1)
    /\ UNCHANGED <<config, cookieFile>>

\* http.ts:720-732
getCrumbBasicResult(r) ==
    IF r.kind = "throw" THEN NULL
    ELSE IF IsRateLimited(r.body) THEN NULL
    ELSE Trim(r.body)

AuthBasicCrumb ==
    /\ UNCHANGED <<wsVars, jarVars, bridgeVars>>
    /\ outbound' = NoOutbound
    /\ AuthAt("basic.crumb")
    /\ StrategyDone(getCrumbBasicResult(ret))
    /\ UNCHANGED <<config, cookieFile>>

\* http.ts:739-768
AuthCsrfConsent ==
    /\ UNCHANGED <<wsVars, jarVars, bridgeVars>>
    /\ outbound' = NoOutbound
    /\ AuthAt("csrf.consent")
    /\ IF ret.kind = "throw" \/ ~HasConsentTokens(ret.body)
       THEN StrategyDone(NULL)
       ELSE AuthNext("csrf.collect", UrlCollect)
    /\ UNCHANGED <<config, cookieFile>>

\* http.ts:768-769
AuthCsrfCollect ==
    /\ UNCHANGED <<wsVars, jarVars, bridgeVars>>
    /\ outbound' = NoOutbound
    /\ AuthAt("csrf.collect")
    /\ IF ret.kind = "throw"
       THEN StrategyDone(NULL)
       ELSE AuthNext("csrf.copy", UrlCopy)
    /\ UNCHANGED <<config, cookieFile>>

\* http.ts:769-773
AuthCsrfCopy ==
    /\ UNCHANGED <<wsVars, jarVars, bridgeVars>>
    /\ outbound' = NoOutbound
    /\ AuthAt("csrf.copy")
    /\ IF ret.kind = "throw"
       THEN StrategyDone(NULL)
       ELSE AuthNext("csrf.crumb", UrlCrumb2)
    /\ UNCHANGED <<config, cookieFile>>

\* http.ts:773-786
getCrumbCsrfResult(r) ==
    IF r.kind = "throw" THEN NULL
    ELSE IF IsRateLimited(Trim(r.body)) THEN NULL
    ELSE IF Trim(r.body) = "" THEN NULL
    ELSE Trim(r.body)

AuthCsrfCrumb ==
    /\ UNCHANGED <<wsVars, jarVars, bridgeVars>>
    /\ outbound' = NoOutbound
    /\ AuthAt("csrf.crumb")
    /\ StrategyDone(getCrumbCsrfResult(ret))
    /\ UNCHANGED <<config, cookieFile>>

HttpNext ==
    \/ StartRequest
    \/ MakeRequestLoop
    \/ MakeRequestSendOk
    \/ MakeRequestSendFail
    \/ MakeRequestBackoff
    \/ AuthBasicCookie
    \/ AuthBasicFc
    \/ AuthBasicCrumb
    \/ AuthCsrfConsent
    \/ AuthCsrfCollect
    \/ AuthCsrfCopy
    \/ AuthCsrfCrumb


(***************************************************************************)
(* Streaming client: YahooWebSocket (websocket.ts:29-288).                 *)
(***************************************************************************)
\* sockets one client opens in a behaviour (each connect() opens a new one)
MaxSockets == 2
\* largest maxReconnectAttempts option passed to the constructor
MaxAttemptsInput == 2
\* disconnect() calls that may wait on one socket's close at the same time
MaxWaiting == 1

\* websocket.ts:43  reconnectInterval: options.reconnectInterval ?? 5000
ReconnectInterval == 5000
\* websocket.ts:98, 134: the normal-closure code
NormalClosure == 1000
\* websocket.ts:92: codes a close event may carry besides 1000: going away,
\* and abnormal closure (connection lost, failed or aborted handshake)
GoingAway == 1001
AbnormalClosure == 1006

\* a socket made by connect(): the state the ws library keeps for it, the
\* promise connect() returned with who awaits it ("user", or "timer" for the
\* reconnect callback), its connection-timeout timer, the close
\* listeners disconnect() added with once(), and the symbols the server was
\* asked for on it (subscribe messages handed to it, less the unsubscribed)
Socket(caller) ==
    [state |-> "connecting", errored |-> FALSE, aborted |-> FALSE,
     promise |-> "pending", caller |-> caller, timeout |-> TRUE, waiting |-> 0,
     asked |-> {}]

Event(type, code, message) == [type |-> type, code |-> code, message |-> message]
EvConnect == Event("connect", 0, "")
EvDisconnect(code) == Event("disconnect", code, "")
EvError(message) == Event("error", 0, message)


\* a timer that fired or was cleared
Gone == [pending |-> FALSE, delay |-> 0]
Pending(ts) == {t \in 1..Len(ts) : ts[t].pending}

\* _scheduleReconnect computing the delay from the counter before its increment
scheduleReconnectOldCount(attempts, timer, timers) ==
    IF attempts >= options.maxReconnectAttempts
    THEN [attempts |-> attempts, timer |-> timer, timers |-> timers,
          events |-> <<EvError("Max reconnect attempts reached")>>]
    ELSE [attempts |-> attempts + 1,
          timer    |-> Len(timers) + 1,
          timers   |-> Append(timers,
                         [pending |-> TRUE,
                          delay   |-> options.reconnectInterval * attempts]),
          events   |-> <<>>]

\* _scheduleReconnect giving up one attempt late
scheduleReconnectLateStop(attempts, timer, timers) ==
    IF attempts > options.maxReconnectAttempts
    THEN [attempts |-> attempts, timer |-> timer, timers |-> timers,
          events |-> <<EvError("Max reconnect attempts reached")>>]
    ELSE [attempts |-> attempts + 1,
          timer    |-> Len(timers) + 1,
          timers   |-> Append(timers,
                         [pending |-> TRUE,
                          delay   |-> options.reconnectInterval * (attempts + 1)]),
          events   |-> <<>>]

\* websocket.ts:258-280: the client fields and timers after the call, as
\* [attempts, timer, timers, events]
scheduleReconnect(attempts, timer, timers) ==
    IF attempts >= options.maxReconnectAttempts
    THEN [attempts |-> attempts, timer |-> timer, timers |-> timers,
          events |-> <<EvError("Max reconnect attempts reached")>>]
    ELSE [attempts |-> attempts + 1,
          timer    |-> Len(timers) + 1,
          timers   |-> Append(timers,
                         [pending |-> TRUE,
                          delay   |-> options.reconnectInterval * (attempts + 1)]),
          events   |-> <<>>]

\* nothing scheduled: the same shape as scheduleReconnect's result
NoSchedule(attempts, timer, timers) ==
    [attempts |-> attempts, timer |-> timer, timers |-> timers, events |-> <<>>]

\* websocket.ts:282-287: [timer, timers] after the call
clearReconnectTimer(timer, timers) ==
    IF timer # 0
    THEN <<0, [timers EXCEPT ![timer] = Gone]>>
    ELSE <<timer, timers>>

\* the open handler leaving the heartbeat out
startHeartbeatNever(id, running) == <<0, running>>

\* websocket.ts:241-249: [heartbeatTimer, heartbeats] after the call made by
\* the open handler of socket id
startHeartbeat(id, running) == <<id, running \cup {id}>>

\* websocket.ts:251-256: [heartbeatTimer, heartbeats] after the call
stopHeartbeat(timer, running) ==
    IF timer # 0
    THEN <<0, running \ {timer}>>
    ELSE <<timer, running>>

\* WebSocket.close() of the ws library: an open socket starts its closing
\* handshake, a connecting one aborts its handshake (error, then close)
CloseSocket(socks, id) ==
    IF id = 0 THEN socks
    ELSE IF socks[id].state = "open" THEN [socks EXCEPT ![id].state = "closing"]
    ELSE IF socks[id].state = "connecting" THEN [socks EXCEPT ![id].aborted = TRUE]
    ELSE socks

\* symbols callers subscribe to, and the longest list passed in one call
Symbols == {"AAPL", "GOOGL"}
MaxListLen == 2
RECURSIVE Lists(_)
Lists(n) ==
    IF n = 0 THEN {<<>>}
    ELSE Lists(n - 1) \cup {Append(l, x) : l \in {m \in Lists(n - 1) : Len(m) = n - 1},
                                           x \in Symbols}
SymbolLists == Lists(MaxListLen)

Range(q) == {q[i] : i \in 1..Len(q)}
Without(q, x) == SelectSeq(q, LAMBDA y : y # x)

\* JSON.stringify({subscribe: [symbol]}) / {unsubscribe: [symbol]}, with the
\* socket it was handed to
Message(id, op, symbol) == [socket |-> id, op |-> op, symbol |-> symbol]

NoCall == [op |-> "none", symbols |-> <<>>, thrown |-> ""]
NotConnected == "WebSocket not connected"
\* WebSocket.send() of the ws library throws while the socket is CONNECTING
SendError == "WebSocket is not open: readyState 0 (CONNECTING)"
SendThrows(id) == sockets[id].state = "connecting"

\* a step of the client in which no subscribe()/unsubscribe() is called
\* an inbound frame: whether JSON.parse accepts its body and, if so, the
\* fields of the message (`undefined` for a field left out; prices in
\* hundredths)
InboundFrame(ok, symbol, price, change, changePercent, error) ==
    [parses |-> ok, symbol |-> symbol, price |-> price, change |-> change,
     changePercent |-> changePercent, error |-> error]
Malformed == InboundFrame(FALSE, "", undefined, undefined, undefined, "")
Frames ==
    {Malformed,
     InboundFrame(TRUE, "AAPL", 15025, undefined, undefined, ""),
     InboundFrame(TRUE, "AAPL", 15025, 125, 84, ""),
     InboundFrame(TRUE, "GOOGL", 0, 0, 0, ""),
     InboundFrame(TRUE, "", undefined, undefined, undefined, "bad symbol"),
     InboundFrame(TRUE, "", undefined, undefined, undefined, "")}

PriceEvent(id, price, change, changePercent) ==
    [type |-> "price", id |-> id, price |-> price, change |-> change,
     changePercent |-> changePercent, message |-> ""]
MessageError(message) ==
    [type |-> "error", id |-> "", price |-> 0, change |-> 0, changePercent |-> 0,
     message |-> message]
\* x || 0
OrZero(x) == IF Falsy(x) THEN 0 ELSE x

\* _handleMessage without its try/catch
handleMessageUncaught(frame) ==
    IF ~frame.parses THEN [events |-> <<>>, raised |-> TRUE]
    ELSE IF ~Falsy(frame.price)
    THEN [events |-> <<PriceEvent(frame.symbol, frame.price, OrZero(frame.change),
                                  OrZero(frame.changePercent))>>,
          raised |-> FALSE]
    ELSE IF frame.error # ""
    THEN [events |-> <<MessageError(frame.error)>>, raised |-> FALSE]
    ELSE [events |-> <<>>, raised |-> FALSE]

\* websocket.ts:211-239: the events emitted and whether the call raised
handleMessage(frame) ==
    IF ~frame.parses THEN [events |-> <<>>, raised |-> FALSE]
    ELSE IF ~Falsy(frame.price)
    THEN [events |-> <<PriceEvent(frame.symbol, frame.price, OrZero(frame.change),
                                  OrZero(frame.changePercent))>>,
          raised |-> FALSE]
    ELSE IF frame.error # ""
    THEN [events |-> <<MessageError(frame.error)>>, raised |-> FALSE]
    ELSE [events |-> <<>>, raised |-> FALSE]

NoFrame == [got |-> FALSE, frame |-> Malformed, events |-> <<>>, raised |-> FALSE]

NoSubscriptionCall ==
    /\ subscribedSymbols' = subscribedSymbols
    /\ sent' = <<>>
    /\ called' = NoCall
    /\ handled' = NoFrame

WsOptions(auto, max) ==
    [autoReconnect |-> auto, reconnectInterval |-> ReconnectInterval,
     maxReconnectAttempts |-> max]

\* websocket.ts:30-47: the client is built with no reconnection, or with
\* reconnection and maxReconnectAttempts 0, 1 or the largest value
\* (maxReconnectAttempts is read by _scheduleReconnect alone, which a client
\* without autoReconnect never calls: one value stands for all of them there)
WsInit ==
    /\ options \in {WsOptions(TRUE, m) : m \in {0, 1, MaxAttemptsInput}}
                        \cup {WsOptions(FALSE, 0)}
    /\ ws = 0
    /\ isConnected = FALSE
    /\ reconnectAttempts = 0
    /\ heartbeatTimer = 0
    /\ reconnectTimer = 0
    /\ sockets = <<>>
    /\ heartbeats = {}
    /\ rtimers = <<>>
    /\ emitted = <<>>
    /\ returned = 0
    /\ clean = FALSE
    /\ subscribedSymbols = <<>>
    /\ sent = <<>>
    /\ called = NoCall
    /\ handled = NoFrame

\* the reconnect callback's catch block letting a failed attempt go
ReschedulesNever(id) == FALSE

\* the promise connect() returned for socket id is rejected: the reconnect
\* callback's catch block (websocket.ts:273-278) reschedules
Reschedules(id) ==
    /\ sockets[id].promise = "pending"
    /\ sockets[id].caller = "timer"
    /\ options.autoReconnect

Settle(socks, id, how) ==
    IF socks[id].promise = "pending" THEN [socks EXCEPT ![id].promise = how] ELSE socks

\* websocket.ts:52-71: connect() called by `caller`
Connect(caller) ==
    /\ isConnected \/ Len(sockets) < MaxSockets
    /\ IF isConnected
       THEN UNCHANGED <<ws, sockets>>
       ELSE /\ sockets' = Append(sockets, Socket(caller))
            /\ ws' = Len(sockets) + 1

UserConnect ==
    /\ UNCHANGED <<httpVars, jarVars, bridgeVars>>
    /\ NoSubscriptionCall
    /\ Connect("user")
    /\ emitted' = <<>>
    /\ returned' = 0
    /\ clean' = FALSE
    /\ UNCHANGED <<options, isConnected, reconnectAttempts, heartbeatTimer,
                   reconnectTimer, heartbeats, rtimers>>

\* websocket.ts:117-136
UserDisconnect ==
    /\ UNCHANGED <<httpVars, jarVars, bridgeVars>>
    /\ NoSubscriptionCall
    /\ emitted' = <<>>
    /\ IF ws = 0 \/ ~isConnected
       THEN /\ returned' = 1
            /\ UNCHANGED <<heartbeatTimer, heartbeats, reconnectTimer, rtimers, sockets>>
       ELSE LET hb == stopHeartbeat(heartbeatTimer, heartbeats)
                rt == clearReconnectTimer(reconnectTimer, rtimers) IN
            /\ sockets[ws].waiting < MaxWaiting
            /\ heartbeatTimer' = hb[1]
            /\ heartbeats' = hb[2]
            /\ reconnectTimer' = rt[1]
            /\ rtimers' = rt[2]
            /\ sockets' = CloseSocket([sockets EXCEPT ![ws].waiting = @ + 1], ws)
            /\ returned' = 0
    /\ UNCHANGED <<options, ws, isConnected, reconnectAttempts, clean>>

\* websocket.ts:73-80: the handshake of socket id completes
SocketOpen(id) ==
    /\ UNCHANGED <<httpVars, jarVars, bridgeVars>>
    /\ NoSubscriptionCall
    /\ sockets[id].state = "connecting"
    /\ ~sockets[id].errored /\ ~sockets[id].aborted
    /\ sockets' = Settle([sockets EXCEPT ![id].state = "open"], id, "resolved")
    /\ isConnected' = TRUE
    /\ reconnectAttempts' = 0
    /\ heartbeatTimer' = startHeartbeat(id, heartbeats)[1]
    /\ heartbeats' = startHeartbeat(id, heartbeats)[2]
    /\ emitted' = <<EvConnect>>
    /\ returned' = 0
    /\ UNCHANGED <<options, ws, reconnectTimer, rtimers, clean>>

\* websocket.ts:86-90: socket id reports an error (the ws library closes it
\* afterwards)
SocketError(id) ==
    /\ UNCHANGED <<httpVars, jarVars, bridgeVars>>
    /\ NoSubscriptionCall
    /\ sockets[id].state # "closed"
    /\ ~sockets[id].errored
    /\ LET r == IF Reschedules(id)
                THEN scheduleReconnect(reconnectAttempts, reconnectTimer, rtimers)
                ELSE NoSchedule(reconnectAttempts, reconnectTimer, rtimers) IN
        /\ reconnectAttempts' = r.attempts
        /\ reconnectTimer' = r.timer
        /\ rtimers' = r.timers
        /\ emitted' = <<EvError("socket")>> \o r.events
    /\ sockets' = Settle([sockets EXCEPT ![id].errored = TRUE], id, "rejected")
    /\ returned' = 0
    /\ UNCHANGED <<options, ws, isConnected, heartbeatTimer, heartbeats, clean>>

\* codes the close event of a socket may carry
CloseCodes(sock) ==
    IF sock.errored THEN {AbnormalClosure}
    ELSE IF sock.state = "closing" THEN {NormalClosure, AbnormalClosure}
    ELSE {NormalClosure, GoingAway, AbnormalClosure}

\* websocket.ts:92-101, then the listeners disconnect() added (128-132)
SocketClose(id) ==
    /\ UNCHANGED <<httpVars, jarVars, bridgeVars>>
    /\ NoSubscriptionCall
    /\ sockets[id].state # "closed"
    /\ (sockets[id].state = "connecting" \/ sockets[id].aborted) => sockets[id].errored
    /\ \E code \in CloseCodes(sockets[id]) :
        LET hb == stopHeartbeat(heartbeatTimer, heartbeats)
            r == IF options.autoReconnect /\ code # NormalClosure
                 THEN scheduleReconnect(reconnectAttempts, reconnectTimer, rtimers)
                 ELSE NoSchedule(reconnectAttempts, reconnectTimer, rtimers)
            n == sockets[id].waiting IN
        /\ isConnected' = FALSE
        /\ heartbeatTimer' = hb[1]
        /\ heartbeats' = hb[2]
        /\ reconnectAttempts' = r.attempts
        /\ reconnectTimer' = r.timer
        /\ rtimers' = r.timers
        /\ emitted' = <<EvDisconnect(code)>> \o r.events
                         \o [i \in 1..n |-> EvDisconnect(NormalClosure)]
        /\ returned' = n
        /\ clean' = IF n > 0 /\ code = NormalClosure THEN TRUE ELSE clean
    /\ sockets' = [sockets EXCEPT ![id].state = "closed", ![id].waiting = 0,
                                  ![id].errored = FALSE, ![id].aborted = FALSE,
                                  ![id].asked = {}]
    /\ UNCHANGED <<options, ws>>

\* websocket.ts:104-109: the connection timeout of socket id's connect() fires
\* (the timeouts all last 10 s, so they fire in the order of the connect() calls)
ConnectTimeout(id) ==
    /\ UNCHANGED <<httpVars, jarVars, bridgeVars>>
    /\ NoSubscriptionCall
    /\ sockets[id].timeout
    /\ \A j \in 1..(id - 1) : ~sockets[j].timeout
    /\ LET off == [sockets EXCEPT ![id].timeout = FALSE]
           r == IF ~isConnected /\ Reschedules(id)
                THEN scheduleReconnect(reconnectAttempts, reconnectTimer, rtimers)
                ELSE NoSchedule(reconnectAttempts, reconnectTimer, rtimers) IN
        /\ sockets' = IF isConnected THEN off
                      ELSE Settle(CloseSocket(off, ws), id, "rejected")
        /\ reconnectAttempts' = r.attempts
        /\ reconnectTimer' = r.timer
        /\ rtimers' = r.timers
        /\ emitted' = r.events
    /\ returned' = 0
    /\ UNCHANGED <<options, ws, isConnected, heartbeatTimer, heartbeats, clean>>

\* websocket.ts:243-247: what a tick of the interval hands to ws.send(),
\* which throws on a socket still connecting
heartbeat(id, connected) ==
    IF id # 0 /\ connected /\ ~SendThrows(id)
    THEN <<Message(id, "heartbeat", "")>>
    ELSE <<>>

\* websocket.ts:242-248: interval id ticks
Heartbeat(id) ==
    /\ UNCHANGED <<httpVars, jarVars, bridgeVars>>
    /\ id \in heartbeats
    /\ sent' = heartbeat(ws, isConnected)
    /\ called' = NoCall
    /\ handled' = NoFrame
    /\ UNCHANGED subscribedSymbols
    /\ returned' = 0
    /\ emitted' = <<>>
    /\ UNCHANGED <<options, ws, isConnected, reconnectAttempts, heartbeatTimer,
                   reconnectTimer, sockets, heartbeats, rtimers, clean>>

\* websocket.ts:270-279: reconnect timer id fires and calls connect()
Reconnect(id) ==
    /\ UNCHANGED <<httpVars, jarVars, bridgeVars>>
    /\ NoSubscriptionCall
    /\ rtimers[id].pending
    /\ rtimers' = [rtimers EXCEPT ![id] = Gone]
    /\ Connect("timer")
    /\ emitted' = <<>>
    /\ returned' = 0
    /\ UNCHANGED <<options, isConnected, reconnectAttempts, heartbeatTimer,
                   reconnectTimer, heartbeats, clean>>

\* websocket.ts:82-84, 211-239: a frame arrives on socket id
SocketMessage(id) ==
    /\ UNCHANGED <<httpVars, jarVars, bridgeVars>>
    /\ sockets[id].state = "open"
    /\ \E frame \in Frames :
        handled' = [got |-> TRUE, frame |-> frame,
                    events |-> handleMessage(frame).events,
                    raised |-> handleMessage(frame).raised]
    /\ emitted' = <<>>
    /\ returned' = 0
    /\ sent' = <<>>
    /\ called' = NoCall
    /\ UNCHANGED <<options, ws, isConnected, reconnectAttempts, heartbeatTimer,
                   reconnectTimer, sockets, heartbeats, rtimers, clean,
                   subscribedSymbols>>

\* websocket.ts:144, 169: the test subscribe() and unsubscribe() start with;
\* first a variant that forgets the isConnected flag
notConnectedNoFlag == ws = 0
notConnected == ~isConnected \/ ws = 0

\* the loop of subscribe() without the has() test
RECURSIVE subscribeLoopResend(_, _, _)
subscribeLoopResend(list, symbols, out) ==
    IF list = <<>>
    THEN [symbols |-> symbols, sent |-> out, thrown |-> ""]
    ELSE IF SendThrows(ws)
         THEN [symbols |-> symbols, sent |-> out, thrown |-> SendError]
         ELSE subscribeLoopResend(Tail(list),
                  IF Head(list) \in Range(symbols) THEN symbols
                  ELSE Append(symbols, Head(list)),
                  Append(out, Message(ws, "subscribe", Head(list))))

\* the loop of subscribe() adding the symbol before it sends
RECURSIVE subscribeLoopAddFirst(_, _, _)
subscribeLoopAddFirst(list, symbols, out) ==
    IF list = <<>>
    THEN [symbols |-> symbols, sent |-> out, thrown |-> ""]
    ELSE IF Head(list) \in Range(symbols)
         THEN subscribeLoopAddFirst(Tail(list), symbols, out)
         ELSE IF SendThrows(ws)
              THEN [symbols |-> Append(symbols, Head(list)), sent |-> out,
                    thrown |-> SendError]
              ELSE subscribeLoopAddFirst(Tail(list), Append(symbols, Head(list)),
                                 Append(out, Message(ws, "subscribe", Head(list))))

\* websocket.ts:148-160: the loop of subscribe() over the rest of the list,
\* as [symbols, sent, thrown]
RECURSIVE subscribeLoop(_, _, _)
subscribeLoop(list, symbols, out) ==
    IF list = <<>>
    THEN [symbols |-> symbols, sent |-> out, thrown |-> ""]
    ELSE IF Head(list) \in Range(symbols)
         THEN subscribeLoop(Tail(list), symbols, out)
         ELSE IF SendThrows(ws)
              THEN [symbols |-> symbols, sent |-> out, thrown |-> SendError]
              ELSE subscribeLoop(Tail(list), Append(symbols, Head(list)),
                                 Append(out, Message(ws, "subscribe", Head(list))))

\* websocket.ts:173-185: the loop of unsubscribe()
RECURSIVE unsubscribeLoop(_, _, _)
unsubscribeLoop(list, symbols, out) ==
    IF list = <<>>
    THEN [symbols |-> symbols, sent |-> out, thrown |-> ""]
    ELSE IF Head(list) \notin Range(symbols)
         THEN unsubscribeLoop(Tail(list), symbols, out)
         ELSE IF SendThrows(ws)
              THEN [symbols |-> symbols, sent |-> out, thrown |-> SendError]
              ELSE unsubscribeLoop(Tail(list), Without(symbols, Head(list)),
                                   Append(out, Message(ws, "unsubscribe", Head(list))))

\* the client's own state is left alone by subscribe()/unsubscribe()
SubscriptionFrame ==
    /\ UNCHANGED <<httpVars, jarVars, bridgeVars>>
    /\ handled' = NoFrame
    /\ emitted' = <<>>
    /\ returned' = 0
    /\ UNCHANGED <<options, ws, isConnected, reconnectAttempts, heartbeatTimer,
                   reconnectTimer, heartbeats, rtimers, clean>>

\* the sockets after the messages of one call were handed to this.ws
Hand(messages) ==
    IF messages = <<>> THEN sockets
    ELSE [sockets EXCEPT ![ws].asked =
            {x \in Symbols :
                \/ \E i \in 1..Len(messages) :
                      messages[i].symbol = x /\ messages[i].op = "subscribe"
                \/ x \in @ /\ \A i \in 1..Len(messages) : messages[i].symbol # x}]

\* websocket.ts:141-161
UserSubscribe ==
    /\ SubscriptionFrame
    /\ \E list \in SymbolLists :
        LET r == IF notConnected
                 THEN [symbols |-> subscribedSymbols, sent |-> <<>>,
                       thrown |-> NotConnected]
                 ELSE subscribeLoop(list, subscribedSymbols, <<>>) IN
        /\ subscribedSymbols' = r.symbols
        /\ sent' = r.sent
        /\ sockets' = Hand(r.sent)
        /\ called' = [op |-> "subscribe", symbols |-> list, thrown |-> r.thrown]

\* websocket.ts:166-186
UserUnsubscribe ==
    /\ SubscriptionFrame
    /\ \E list \in SymbolLists :
        LET r == IF notConnected
                 THEN [symbols |-> subscribedSymbols, sent |-> <<>>,
                       thrown |-> NotConnected]
                 ELSE unsubscribeLoop(list, subscribedSymbols, <<>>) IN
        /\ subscribedSymbols' = r.symbols
        /\ sent' = r.sent
        /\ sockets' = Hand(r.sent)
        /\ called' = [op |-> "unsubscribe", symbols |-> list, thrown |-> r.thrown]

WsNext ==
    \/ UserConnect
    \/ UserDisconnect
    \/ \E id \in 1..Len(sockets) : SocketOpen(id)
    \/ \E id \in 1..Len(sockets) : SocketError(id)
    \/ \E id \in 1..Len(sockets) : SocketClose(id)
    \/ \E id \in 1..Len(sockets) : ConnectTimeout(id)
    \/ \E id \in heartbeats : Heartbeat(id)
    \/ \E id \in 1..Len(rtimers) : Reconnect(id)

(***************************************************************************)
(* The cookie store on its own: one client sends requests and stores the   *)
(* cookies of the responses while the clock advances; callers clear the    *)
(* jar, and a later client is built on the same cookie file.               *)
(***************************************************************************)
MaxNow == 3
MaxSetCookies == 1
MaxReads == 2

UrlHome == Url(<<"yahoo", "com">>, <<>>)
CookieUrls == {UrlHome, UrlPage}

\* Set-Cookie headers a server sends
Plain   == Directive("A", "v1")
Scoped  == [Directive("A", "v2") EXCEPT !.path = <<"quote">>, !.secure = TRUE,
                                        !.httpOnly = TRUE]
MaxAged == [Directive("A", "v3") EXCEPT !.maxAge = 1]
\* Expires=Thu, 01 Jan 1970 00:00:00 GMT
Deleted == [Directive("A", "v4") EXCEPT !.expires = 0]
Dated   == [Directive("A", "v5") EXCEPT !.expires = 1]
Wide    == [Directive("A", "v6") EXCEPT !.domain = <<"yahoo", "com">>]
Directives == {Plain, Scoped, MaxAged, Deleted, Dated, Wide}

RECURSIVE DirectiveLists(_)
DirectiveLists(n) ==
    IF n = 0 THEN {<<>>}
    ELSE DirectiveLists(n - 1)
            \cup {Append(q, d) : q \in DirectiveLists(n - 1), d \in Directives}

NoExchange ==
    [phase |-> "none", url |-> UrlHome, at |-> 0, cookies |-> {}, response |-> <<>>]

\* cookie files left by an earlier run: none, or one cookie stored from
\* "A=v0; Max-Age=1" at a whole second
CookieFiles ==
    {{}, serializeCookies(put({}, UrlHome.host,
                              parseSetCookie([Directive("A", "v0") EXCEPT !.maxAge = 1], 0)))}

\* bound on the makeRequest calls under way at once
MaxOverlap == 2
Callers == 1..MaxOverlap
NotCalled == [pc |-> "idle", retries |-> 0, crumb |-> NULL, jar |-> {}, attached |-> NULL]

JarBuilt ==
    /\ now = 0
    /\ exchange = NoExchange
    /\ reads = 0
    /\ inflight = [r \in Callers |-> NotCalled]

\* time passes
CookieTick ==
    /\ now < MaxNow
    /\ now' = now + 1
    /\ UNCHANGED <<bridgeVars, httpVars, wsVars, exchange, reads, inflight>>

\* http.ts:543-551: makeRequest collects the cookies of the request
\* (getCookiesForUrl, loading the jar first) and sends it
CookieSend ==
    /\ exchange.phase # "sent"
    /\ \E url \in CookieUrls :
        LET read == cookieJar = {} /\ cookieFile # {}
            jar == loadCookies(cookieJar, cookieFile) IN
        /\ read => reads < MaxReads
        /\ reads' = IF read THEN reads + 1 ELSE reads
        /\ cookieJar' = jar
        /\ exchange' = [phase |-> "sent", url |-> url, at |-> now,
                        cookies |-> getCookiesForUrl(jar, url, now),
                        response |-> <<>>]
    /\ UNCHANGED <<bridgeVars, outbound, config, crumb, cookieStrategy, cookieFile, stack, auth, ret,
                   last, fails, wsVars, now, inflight>>

\* http.ts:579-586: the response arrives; its cookies are stored and the
\* jar is saved
CookieReceive ==
    /\ exchange.phase = "sent"
    /\ \E directives \in DirectiveLists(MaxSetCookies) :
        LET jar == updateCookiesFromResponse(cookieJar, exchange.url,
                                             Response("", directives), now) IN
        /\ cookieJar' = jar
        /\ cookieFile' = saveCookies(jar, cookieFile)
        /\ exchange' = [exchange EXCEPT !.phase = "done", !.response = directives]
    /\ UNCHANGED <<bridgeVars, outbound, config, crumb, cookieStrategy, stack, auth, ret, last, fails,
                   wsVars, now, reads, inflight>>

\* http.ts:659-667: clearCookies() of a caller, between two requests
CookieClear ==
    /\ exchange.phase # "sent"
    /\ cookieJar' = clearCookies(cookieJar)
    /\ exchange' = NoExchange
    /\ UNCHANGED <<bridgeVars, outbound, config, crumb, cookieStrategy, cookieFile, stack, auth, ret,
                   last, fails, wsVars, now, reads, inflight>>

\* http.ts:643-657: a caller sets a cookie of its own, between two requests,
\* on a client that has not read its cookie file yet
CookieSet ==
    /\ exchange.phase # "sent"
    /\ reads = 0
    /\ cookieJar' = setCookie(cookieJar, UrlHome.host, "B", "w1")
    /\ exchange' = NoExchange
    /\ UNCHANGED <<bridgeVars, outbound, config, crumb, cookieStrategy, cookieFile, stack, auth, ret,
                   last, fails, wsVars, now, reads, inflight>>

\* http.ts:154-192: a new HttpClient on the same cookieJarPath
CookieRestart ==
    /\ exchange.phase # "sent"
    /\ cookieJar' = {}
    /\ exchange' = NoExchange
    /\ reads' = 0
    /\ UNCHANGED <<bridgeVars, outbound, config, crumb, cookieStrategy, cookieFile, stack, auth, ret,
                   last, fails, wsVars, now, inflight>>

CookieNext ==
    \/ CookieTick
    \/ CookieSend
    \/ CookieReceive
    \/ CookieClear
    \/ CookieSet
    \/ CookieRestart

(***************************************************************************)
(* Overlapping requests: callers have several makeRequest calls under way  *)
(* on one HttpClient.  Each runs between its awaits without interruption;  *)
(* at an await that waits for the network, a timer or the file system,     *)
(* the others proceed.  One run of _getCookieAndCrumb is taken as a whole  *)
(* here, with its outcomes.                                                *)
(***************************************************************************)
\* http.ts:553-560: the crumb put on the outbound call, NULL for none
Attach(c) == IF c # NULL /\ c # "" THEN c ELSE NULL

\* what one run of _getCookieAndCrumb ends with: the crumb (NULL when the
\* strategies failed) and the Set-Cookie headers of the bootstrap response
AuthOutcomes ==
    {[crumb |-> c, setCookies |-> d] :
        c \in {NULL, "crumb1"}, d \in {<<>>, <<Directive("A", "v1")>>}}

\* a caller calls get() on an auth-required URL (http.ts:512-524)
OverlapCall(r) ==
    /\ inflight[r].pc = "idle"
    /\ inflight' = [inflight EXCEPT ![r] = [NotCalled EXCEPT !.pc = "loop"]]
    /\ UNCHANGED <<bridgeVars, httpVars, wsVars, now, exchange, reads>>

\* http.ts:524-560: _getCookieAndCrumb loads the jar, visits fc.yahoo.com
\* (whose cookies are stored and saved) and the crumb endpoint; it returns
\* and this.crumb is set (529);
\* getCookiesForUrl awaits loadCookies, which goes to the file system when
\* the jar is empty (194-220): only then do other calls run before this one
\* attaches its cookies and crumb
OverlapAuth(r) ==
    /\ inflight[r].pc = "loop"
    /\ \E o \in AuthOutcomes :
        LET jar == updateCookiesFromResponse(loadCookies(cookieJar, cookieFile),
                                             UrlFc, Response("", o.setCookies), now) IN
        /\ crumb' = o.crumb
        /\ cookieJar' = jar
        /\ cookieFile' = saveCookies(jar, cookieFile)
        /\ inflight' = [inflight EXCEPT ![r] =
                [@ EXCEPT !.pc = IF jar = {} THEN "load" ELSE "sent",
                          !.crumb = o.crumb,
                          !.jar = jar,
                          !.attached = IF jar = {} THEN NULL ELSE Attach(o.crumb)]]
    /\ UNCHANGED <<bridgeVars, outbound, config, cookieStrategy, stack, auth, ret, last, fails,
                   wsVars, now, exchange, reads>>

\* http.ts:543-579: the file was read; the cookies and the crumb as they
\* are now go on the call, which is sent
OverlapSend(r) ==
    /\ inflight[r].pc = "load"
    /\ cookieJar' = loadCookies(cookieJar, cookieFile)
    /\ inflight' = [inflight EXCEPT ![r] =
            [@ EXCEPT !.pc = "sent", !.attached = Attach(crumb)]]
    /\ UNCHANGED <<bridgeVars, outbound, config, crumb, cookieStrategy, cookieFile, stack, auth, ret,
                   last, fails, wsVars, now, exchange, reads>>

\* http.ts:579-591: the call succeeds; the jar is updated and saved
OverlapOk(r) ==
    /\ inflight[r].pc = "sent"
    /\ \E d \in {<<>>, <<Directive("A", "v1")>>} :
        LET jar == updateCookiesFromResponse(cookieJar, UrlQuote,
                                             Response("", d), now) IN
        /\ cookieJar' = jar
        /\ cookieFile' = saveCookies(jar, cookieFile)
    /\ inflight' = [inflight EXCEPT ![r] = [@ EXCEPT !.pc = "done"]]
    /\ UNCHANGED <<bridgeVars, outbound, config, crumb, cookieStrategy, stack, auth, ret, last, fails,
                   wsVars, now, exchange, reads>>

\* http.ts:592-609: the call fails; with retries left the crumb and the jar
\* are cleared and the call waits for its backoff, otherwise it throws
OverlapFail(r) ==
    /\ inflight[r].pc = "sent"
    /\ LET retries == inflight[r].retries + 1 IN
        IF retries <= config.retries
        THEN /\ crumb' = NULL
             /\ cookieJar' = clearCookies(cookieJar)
             /\ inflight' = [inflight EXCEPT ![r] =
                    [@ EXCEPT !.pc = "delay", !.retries = retries]]
        ELSE /\ inflight' = [inflight EXCEPT ![r] =
                    [@ EXCEPT !.pc = "done", !.retries = retries]]
             /\ UNCHANGED <<crumb, cookieJar>>
    /\ UNCHANGED <<bridgeVars, outbound, config, cookieStrategy, cookieFile, stack, auth, ret, last,
                   fails, wsVars, now, exchange, reads>>

\* http.ts:600: the backoff is over, the loop runs again
OverlapRetry(r) ==
    /\ inflight[r].pc = "delay"
    /\ inflight' = [inflight EXCEPT ![r] = [@ EXCEPT !.pc = "loop"]]
    /\ UNCHANGED <<bridgeVars, httpVars, wsVars, now, exchange, reads>>

OverlapNext ==
    \/ \E r \in Callers : OverlapCall(r)
    \/ \E r \in Callers : OverlapAuth(r)
    \/ \E r \in Callers : OverlapSend(r)
    \/ \E r \in Callers : OverlapOk(r)
    \/ \E r \in Callers : OverlapFail(r)
    \/ \E r \in Callers : OverlapRetry(r)

(***************************************************************************)
(* AsyncYahooWebSocket (websocket.ts:291-361)                              *)
(***************************************************************************)
\* bound on the events the wrapped client emits
MaxEvents == 2
\* bound on the messages() generators in use
MaxGenerators == 2
Generators == 1..MaxGenerators

\* one event for each listener the constructor registers
BridgeEvents ==
    {EvConnect, EvDisconnect(NormalClosure), Event("price", 15025, ""),
     EvError("Max reconnect attempts reached")}

\* a WebSocketMessage: its tag, its data (the payload, by the number that
\* tells it apart) and its error text
Tagged(type, data, error) == [type |-> type, data |-> data, error |-> error]
NoMessage == Tagged("", undefined, "")

\* websocket.ts:299-313: the message each listener builds from its event
tag(ev) ==
    CASE ev.type = "connect" -> Tagged("connect", undefined, "")
      [] ev.type = "disconnect" -> Tagged("disconnect", ev.code, "")
      [] ev.type = "price" -> Tagged("price", ev.code, "")
      [] ev.type = "error" -> Tagged("error", undefined, ev.message)

\* a bridge that queues every message, whoever waits
addToQueueAlways(queue, waiters, message) ==
    [messageQueue |-> Append(queue, message), resolveQueue |-> waiters,
     resolved |-> 0]

\* websocket.ts:353-360: the queues after _addToQueue(message), and the
\* generator whose promise it resolved (0: none)
addToQueue(queue, waiters, message) ==
    IF Len(waiters) > 0
    THEN [messageQueue |-> queue, resolveQueue |-> Tail(waiters),
          resolved |-> Head(waiters)]
    ELSE [messageQueue |-> Append(queue, message), resolveQueue |-> waiters,
          resolved |-> 0]

Idle == [pc |-> "idle", value |-> NoMessage]

BridgeBuilt ==
    /\ messageQueue = <<>>
    /\ resolveQueue = <<>>
    /\ generators = [g \in Generators |-> Idle]
    /\ delivered = [g \in Generators |-> <<>>]
    /\ underlying = <<>>

\* websocket.ts:299-313: the wrapped client emits ev and the listener
\* passes its message to _addToQueue
BridgeEmit(ev) ==
    /\ UNCHANGED <<httpVars, wsVars, jarVars>>
    /\ Len(underlying) < MaxEvents
    /\ underlying' = Append(underlying, ev)
    /\ LET r == addToQueue(messageQueue, resolveQueue, tag(ev)) IN
        /\ messageQueue' = r.messageQueue
        /\ resolveQueue' = r.resolveQueue
        /\ generators' =
            IF r.resolved = 0
            THEN generators
            ELSE [generators EXCEPT ![r.resolved] = [pc |-> "settled", value |-> tag(ev)]]
    /\ UNCHANGED delivered

\* websocket.ts:332-343: the consumer of generator g calls next(); the body
\* runs to its yield, whose operand the generator awaits
BridgeRequest(g) ==
    /\ UNCHANGED <<httpVars, wsVars, jarVars>>
    /\ generators[g].pc = "idle"
    /\ IF Len(messageQueue) > 0
       THEN /\ generators' = [generators EXCEPT ![g] = [pc |-> "settled", value |-> Head(messageQueue)]]
            /\ messageQueue' = Tail(messageQueue)
            /\ UNCHANGED resolveQueue
       ELSE /\ generators' = [generators EXCEPT ![g] = [pc |-> "awaiting", value |-> NoMessage]]
            /\ resolveQueue' = Append(resolveQueue, g)
            /\ UNCHANGED messageQueue
    /\ UNCHANGED <<delivered, underlying>>

\* websocket.ts:335-341: the awaited operand has settled; generator g
\* yields it and the consumer's next() resolves with it
BridgeYield(g) ==
    /\ UNCHANGED <<httpVars, wsVars, jarVars>>
    /\ generators[g].pc = "settled"
    /\ delivered' = [delivered EXCEPT ![g] = Append(@, generators[g].value)]
    /\ generators' = [generators EXCEPT ![g] = Idle]
    /\ UNCHANGED <<messageQueue, resolveQueue, underlying>>

BridgeNext ==
    \/ \E ev \in BridgeEvents : BridgeEmit(ev)
    \/ \E g \in Generators : BridgeRequest(g)
    \/ \E g \in Generators : BridgeYield(g)


(***************************************************************************)
(* Specifications: the transport and the streaming client are independent  *)
(* objects; each specification runs one and leaves the other as built.     *)
(***************************************************************************)
HttpBuilt ==
    /\ config = HttpConfig(0, 0)
    /\ crumb = NULL
    /\ cookieStrategy = "basic"
    /\ cookieJar = {}
    /\ cookieFile = {}
    /\ stack = <<>>
    /\ auth = AuthIdle
    /\ ret = NoRet
    /\ last = NoLast
    /\ fails = [strategy |-> "basic", n |-> 0]
    /\ outbound = NoOutbound

WsBuilt ==
    /\ options = WsOptions(TRUE, MaxAttemptsInput)
    /\ ws = 0
    /\ isConnected = FALSE
    /\ reconnectAttempts = 0
    /\ heartbeatTimer = 0
    /\ reconnectTimer = 0
    /\ sockets = <<>>
    /\ heartbeats = {}
    /\ rtimers = <<>>
    /\ emitted = <<>>
    /\ returned = 0
    /\ clean = FALSE
    /\ subscribedSymbols = <<>>
    /\ sent = <<>>
    /\ called = NoCall
    /\ handled = NoFrame

\* a transport as constructed, beside an idle streaming client
HttpStart == HttpInit /\ WsBuilt /\ JarBuilt /\ BridgeBuilt
\* a streaming client as constructed, beside an idle transport
WsStart == WsInit /\ HttpBuilt /\ JarBuilt /\ BridgeBuilt

SpecHttp == HttpStart /\ [][HttpNext]_vars

SpecWs == WsStart /\ [][WsNext]_vars

\* the subscription manager: callers connect, subscribe and unsubscribe on
\* a client without automatic reconnection, whose sockets open, receive
\* frames and are closed by the server (what subscribe() and unsubscribe()
\* read is isConnected, this.ws with its socket's state, and the
\* subscription set; disconnect() is followed under SpecWs)
SubsStart == WsStart /\ options = WsOptions(FALSE, 0)

SubsNext ==
    \/ UserConnect
    \/ \E id \in 1..Len(sockets) : SocketOpen(id)
    \/ \E id \in 1..Len(sockets) : SocketClose(id)
    \/ \E id \in 1..Len(sockets) : SocketMessage(id)
    \/ UserSubscribe
    \/ UserUnsubscribe

SpecSubs == SubsStart /\ [][SubsNext]_vars

\* a client just built on a cookie file an earlier run may have left, half
\* a second past a whole second
CookieStart ==
    /\ config = HttpConfig(0, 0)
    /\ crumb = NULL
    /\ cookieStrategy = "basic"
    /\ cookieJar = {}
    /\ cookieFile \in CookieFiles
    /\ stack = <<>>
    /\ auth = AuthIdle
    /\ ret = NoRet
    /\ last = NoLast
    /\ fails = [strategy |-> "basic", n |-> 0]
    /\ outbound = NoOutbound
    /\ WsBuilt
    /\ now = 1
    /\ exchange = NoExchange
    /\ reads = 0
    /\ inflight = [r \in Callers |-> NotCalled]
    /\ BridgeBuilt

SpecCookies == CookieStart /\ [][CookieNext]_vars

\* a client built with retries: 1 that callers use from several places at
\* once
OverlapStart ==
    /\ config = HttpConfig(1, DefaultRetryDelay)
    /\ crumb = NULL
    /\ cookieStrategy = "basic"
    /\ cookieJar = {}
    /\ cookieFile = {}
    /\ stack = <<>>
    /\ auth = AuthIdle
    /\ ret = NoRet
    /\ last = NoLast
    /\ fails = [strategy |-> "basic", n |-> 0]
    /\ outbound = NoOutbound
    /\ WsBuilt
    /\ JarBuilt
    /\ BridgeBuilt

SpecOverlap == OverlapStart /\ [][OverlapNext]_vars

\* a transport built with retries: 1 or 2 whose pending operations always
\* settle (every call has the transport's timeout, every delay elapses)
AcquireStart ==
    /\ HttpInit
    /\ config \in {HttpConfig(1, DefaultRetryDelay), HttpConfig(2, DefaultRetryDelay)}
    /\ WsBuilt /\ JarBuilt /\ BridgeBuilt

SpecAcquire == AcquireStart /\ [][HttpNext]_vars /\ WF_vars(HttpNext)

\* an async bridge as constructed, beside an idle transport
BridgeStart == BridgeBuilt /\ HttpBuilt /\ WsBuilt /\ JarBuilt

SpecBridge == BridgeStart /\ [][BridgeNext]_vars

(***************************************************************************)
(* Claims about the transport (checked under SpecHttp).                    *)
(***************************************************************************)
\* the request a caller made is still running / has ended
Running == stack # <<>>
Ended == stack = <<>> /\ last.kind # "none"
\* a 4xx other than 408 and 429
IsTerminal(e) ==
    e.response /\ e.status >= 400 /\ e.status < 500 /\ e.status \notin {408, 429}

\* C1: for a URL that needs no authentication, a request whose attempts are
\* all answered with HTTP 500 fails after exactly retries + 1 network calls
\* (4 with retries = 3), and a request still running has issued at most
\* `retries` calls that failed.
C1_AttemptsOn500 ==
    /\ (Running /\ ~isYahooFinanceApiRequest(stack[1].url))
          => stack[1].calls <= config.retries
    /\ (Ended /\ ~isYahooFinanceApiRequest(last.frame.url)
              /\ last.kind = "throw" /\ last.frame.only = HttpError(500))
          => /\ last.frame.calls = config.retries + 1
             /\ (config.retries = 3 => last.frame.calls = 4)

C1_Witness ==
    /\ Ended /\ last.kind = "throw"
    /\ last.frame.url = UrlPage
    /\ last.frame.only = HttpError(500)
    /\ config.retries = 3
    /\ last.frame.calls = 4

\* C2: when every attempt failed with a retryable failure and retries + 1
\* attempts were made, the error the caller gets is 'Max retries exceeded'.
C2_MaxRetriesSurfaced ==
    (Ended /\ last.kind = "throw" /\ last.frame.allRetryable
           /\ last.frame.calls = config.retries + 1)
        => last.error = MaxRetriesError

\* C3: on a URL that needs no authentication, an attempt failing with a
\* terminal client error ends the request at once: a request goes on only
\* while all its failures were retryable, and one whose attempts failed with
\* a terminal error alone made exactly one call, awaited no delay and
\* surfaced that error, whatever `retries` is.
C3_TerminalOnce ==
    /\ (Running /\ ~isYahooFinanceApiRequest(stack[1].url))
          => stack[1].allRetryable
    /\ (Ended /\ ~isYahooFinanceApiRequest(last.frame.url)
              /\ last.kind = "throw" /\ IsTerminal(last.frame.only))
          => /\ last.frame.calls = 1
             /\ last.frame.delays = <<>>
             /\ last.error = last.frame.only

C3_Witness ==
    /\ Ended /\ last.kind = "throw"
    /\ last.frame.url = UrlPage
    /\ last.frame.only = HttpError(404)
    /\ config.retries = 3
    /\ last.frame.calls = 1

\* C4: on a URL that needs authentication every failed attempt but the last
\* allowed one, whatever its error (a 404 included), clears the crumb and
\* all cookies and is followed by a delay and another attempt; the request
\* fails only after retries + 1 failed attempts.
C4_AuthClassRetry ==
    /\ (Running /\ isYahooFinanceApiRequest(stack[1].url))
          => /\ stack[1].calls = stack[1].retries
             /\ stack[1].retries <= config.retries
             /\ stack[1].cleared = stack[1].retries
             /\ Len(stack[1].delays) = stack[1].retries
             /\ (stack[1].pc = "backoff" => crumb = NULL /\ cookieJar = {})
    /\ (Ended /\ isYahooFinanceApiRequest(last.frame.url) /\ last.kind = "throw")
          => /\ last.frame.calls = config.retries + 1
             /\ last.frame.cleared = config.retries

C4_Witness ==
    /\ Ended /\ last.kind = "throw"
    /\ last.frame.url = UrlQuote
    /\ last.frame.only = HttpError(404)
    /\ config.retries = 3
    /\ last.frame.calls = 4
    /\ last.frame.cleared = 3

CloseStep == emitted' # <<>> /\ emitted'[1].type = "disconnect"
\* the step rejects the connect() the reconnect callback awaits
RejectStep ==
    \E id \in 1..Len(sockets) :
        /\ sockets[id].caller = "timer"
        /\ sockets[id].promise = "pending"
        /\ sockets'[id].promise = "rejected"
\* the timer _scheduleReconnect arms when the counter goes to n
NewTimer(n) == [pending |-> TRUE, delay |-> options.reconnectInterval * n]
MaxReached == EvError("Max reconnect attempts reached")

\* C6: whenever a disconnect() call has just returned, no heartbeat timer and
\* no reconnect timer is pending.
C6_NoTimersAfterDisconnect ==
    returned > 0 => (heartbeats = {} /\ Pending(rtimers) = {})

\* C7: after a closure with code 1000 that disconnect() caused, and until
\* connect() is called explicitly, the client is not connected and no
\* reconnect is scheduled.
C7_StaysDisconnected ==
    clean => (~isConnected /\ Pending(rtimers) = {})

\* C8: a closure with a code other than 1000, with autoReconnect enabled and
\* the counter below the maximum, increments the counter by one and arms
\* exactly one reconnect timer, whose delay is reconnectInterval times the
\* new counter; with autoReconnect disabled a closure arms no timer and
\* leaves the counter alone.
C8_CloseSchedulesOnce ==
    [][CloseStep =>
        /\ (/\ options.autoReconnect
            /\ emitted'[1].code # NormalClosure
            /\ reconnectAttempts < options.maxReconnectAttempts)
              => /\ reconnectAttempts' = reconnectAttempts + 1
                 /\ rtimers' = Append(rtimers, NewTimer(reconnectAttempts'))
                 /\ reconnectTimer' = Len(rtimers')
        /\ ~options.autoReconnect
              => /\ rtimers' = rtimers
                 /\ reconnectTimer' = reconnectTimer
                 /\ reconnectAttempts' = reconnectAttempts
      ]_vars

C8_Witness ==
    /\ emitted # <<>> /\ emitted[1] = EvDisconnect(AbnormalClosure)
    /\ options.autoReconnect
    /\ reconnectAttempts = 2
    /\ reconnectTimer # 0
    /\ rtimers[reconnectTimer] = [pending |-> TRUE, delay |-> 10000]

\* C9: reconnectAttempts never exceeds maxReconnectAttempts, and a step that
\* calls _scheduleReconnect (a closure with a code other than 1000, or the
\* failure of a scheduled reconnect, with autoReconnect enabled) while the
\* counter equals the maximum arms no timer, leaves the counter unchanged
\* and emits the error 'Max reconnect attempts reached'.
C9_AttemptsCapped ==
    /\ [](reconnectAttempts <= options.maxReconnectAttempts)
    /\ [][(/\ options.autoReconnect
           /\ reconnectAttempts = options.maxReconnectAttempts
           /\ \/ CloseStep /\ emitted'[1].code # NormalClosure
              \/ RejectStep)
            => /\ rtimers' = rtimers
               /\ reconnectTimer' = reconnectTimer
               /\ reconnectAttempts' = reconnectAttempts
               /\ \E i \in 1..Len(emitted') : emitted'[i] = MaxReached
         ]_vars

C9_Witness ==
    /\ \E i \in 1..Len(emitted) : emitted[i] = MaxReached
    /\ options.maxReconnectAttempts = 2
    /\ reconnectAttempts = 2
    /\ Len(rtimers) = 2

\* C10: with autoReconnect enabled, the step in which a scheduled reconnect
\* fails opens no socket; below the maximum it increments the counter and
\* arms one timer whose delay is reconnectInterval times the new counter
\* (more than reconnectInterval times the old one); at the maximum it arms
\* none.
C10_FailedReconnectReschedules ==
    [][(RejectStep /\ options.autoReconnect) =>
        /\ Len(sockets') = Len(sockets)
        /\ IF reconnectAttempts < options.maxReconnectAttempts
           THEN /\ reconnectAttempts' = reconnectAttempts + 1
                /\ rtimers' = Append(rtimers, NewTimer(reconnectAttempts'))
                /\ reconnectTimer' = Len(rtimers')
                /\ rtimers'[reconnectTimer'].delay
                       > options.reconnectInterval * reconnectAttempts
           ELSE /\ rtimers' = rtimers
                /\ reconnectAttempts' = reconnectAttempts
      ]_vars

C10_Witness ==
    /\ \E id \in 1..Len(sockets) :
          sockets[id].caller = "timer" /\ sockets[id].promise = "rejected"
    /\ options.autoReconnect
    /\ reconnectAttempts = 2
    /\ reconnectTimer = 2
    /\ rtimers = <<Gone, [pending |-> TRUE, delay |-> 10000]>>

(***************************************************************************)
(* Claims about subscriptions (checked under SpecSubs).                    *)
(***************************************************************************)
NoDuplicates(q) == \A i, j \in 1..Len(q) : q[i] = q[j] => i = j
SentSymbols(q) == {q[i].symbol : i \in 1..Len(q)}
SubscriptionCall == called'.op \in {"subscribe", "unsubscribe"}

\* C11: in every subscribe()/unsubscribe() call made while connected, the
\* subscription set stays free of duplicates, at most one message is sent
\* per symbol, a subscribe message only for a symbol that was not in the
\* set and an unsubscribe message only for one that was; a call that does
\* not throw sends exactly those and leaves the set with (without) the
\* symbols of the list.  subscribe(['AAPL','AAPL']) on an empty set sends
\* one message and getSubscribedSymbols() is then ['AAPL'].
C11_SubscriptionsIdempotent ==
    [][(SubscriptionCall /\ isConnected /\ ws # 0) =>
        LET before == Range(subscribedSymbols)
            list == Range(called'.symbols) IN
        /\ NoDuplicates(subscribedSymbols')
        /\ NoDuplicates(sent')
        /\ \A i \in 1..Len(sent') :
              /\ sent'[i].op = called'.op
              /\ sent'[i].socket = ws
              /\ sent'[i].symbol \in list
              /\ called'.op = "subscribe" => sent'[i].symbol \notin before
              /\ called'.op = "unsubscribe" => sent'[i].symbol \in before
        /\ (called'.thrown = "" /\ called'.op = "subscribe")
              => /\ SentSymbols(sent') = list \ before
                 /\ Range(subscribedSymbols') = before \cup list
        /\ (called'.thrown = "" /\ called'.op = "unsubscribe")
              => /\ SentSymbols(sent') = list \cap before
                 /\ Range(subscribedSymbols') = before \ list
        /\ (/\ called'.op = "subscribe"
            /\ called'.symbols = <<"AAPL", "AAPL">>
            /\ subscribedSymbols = <<>>
            /\ called'.thrown = "")
              => /\ Len(sent') = 1
                 /\ subscribedSymbols' = <<"AAPL">>
      ]_vars

C11_Witness ==
    /\ isConnected
    /\ called = [op |-> "subscribe", symbols |-> <<"AAPL", "AAPL">>, thrown |-> ""]
    /\ sent = <<Message(ws, "subscribe", "AAPL")>>
    /\ subscribedSymbols = <<"AAPL">>

\* C12: a subscribe() or unsubscribe() call made while the client is not
\* connected throws 'WebSocket not connected', hands no message to a socket
\* and leaves the subscription set as it was.
C12_NotConnectedRejected ==
    [][(SubscriptionCall /\ (~isConnected \/ ws = 0)) =>
        /\ called'.thrown = NotConnected
        /\ sent' = <<>>
        /\ subscribedSymbols' = subscribedSymbols
      ]_vars

C12_Witness ==
    /\ ~isConnected
    /\ called = [op |-> "unsubscribe", symbols |-> <<"AAPL">>, thrown |-> NotConnected]
    /\ sent = <<>>
    /\ subscribedSymbols = <<"AAPL">>

(***************************************************************************)
(* Claims about the cookie store.                                          *)
(***************************************************************************)
\* the request under way, or the last one answered
Attached == exchange.phase \in {"sent", "done"}
\* the domain equals the host or is a parent domain of it
DomainMatches(c, url) == c.domain = url.host \/ EndsWith(url.host, c.domain)
\* the cookie has an expiration and it lies before t
InThePast(c, t) == c.expiration # undefined /\ c.expiration < t
\* the cookie has an expiration and t has reached it
Expired(c, t) == c.expiration # undefined /\ c.expiration <= t

\* C13: a stored cookie whose expiration lies in the past is never among
\* the cookies getCookiesForUrl returns, whatever the URL
C13_ExpiredNeverAttached ==
    Attached => \A c \in exchange.cookies : ~InThePast(c, exchange.at)

\* C14: the cookies attached to a request are exactly the stored cookies
\* whose domain equals the host or is a parent domain of it, whose path is
\* a prefix of the request's path, and that are not expired
C14_ExactlyTheMatchingCookies ==
    exchange.phase = "sent" =>
        exchange.cookies =
            {c \in cookieJar : /\ DomainMatches(c, exchange.url)
                               /\ StartsWith(exchange.url.path, c.path)
                               /\ ~Expired(c, exchange.at)}

\* the directive of a response that set a name last
LastFor(directives, i) ==
    \A j \in (i + 1)..Len(directives) : directives[j].name # directives[i].name

SameExpiration(e, f) == IF e = undefined THEN Falsy(f) ELSE e = f
SameCookie(x, y) ==
    /\ x.domain = y.domain
    /\ x.name = y.name
    /\ x.value = y.value
    /\ x.path = y.path
    /\ x.secure = y.secure
    /\ x.httpOnly = y.httpOnly
    /\ SameExpiration(x.expiration, y.expiration)
\* jar b holds the cookies of jar a, field by field, and no other
Equivalent(a, b) ==
    /\ \A x \in a : \E y \in b : SameCookie(x, y)
    /\ \A y \in b : \E x \in a : y.domain = x.domain /\ y.name = x.name

\* C16: parsing the file saveCookies wrote gives back the cookies of the
\* jar, with the same value, path, flags and expiration
C16_RoundTrip ==
    exchange.phase = "done" => Equivalent(cookieJar, parseCookieFile(cookieFile))

\* C17: one HttpClient reads an existing cookie file at most once
C17_FileReadOnce == reads <= 1

\* C18: after a response, each cookie it set is stored under the domain of
\* its Domain attribute, or under the request's host when it has none
C18_StoredUnderDomainAttribute ==
    exchange.phase = "done" =>
        \A i \in 1..Len(exchange.response) :
            LET d == exchange.response[i] IN
            \E c \in cookieJar :
                /\ c.name = d.name
                /\ c.domain = IF d.domain = NoDomain THEN exchange.url.host
                              ELSE d.domain

(***************************************************************************)
(* Claims about the crumb cache.                                           *)
(***************************************************************************)
\* C20: while a crumb is cached, no request starts an authentication
\* strategy (no bootstrap, consent or crumb-endpoint call precedes it)
C20_CachedCrumbReused ==
    [][(auth.pc = "idle" /\ auth'.pc # "idle") => crumb \in {NULL, ""}]_vars

(***************************************************************************)
(* Claims about overlapping requests.                                      *)
(***************************************************************************)
\* C19: from the moment a request's authentication returned until its call
\* is sent, this.crumb and the cookie jar are as that authentication left
\* them: no other request under way changes them
C19_UpdatesSerialized ==
    \A r \in Callers :
        inflight[r].pc = "load" =>
            /\ crumb = inflight[r].crumb
            /\ cookieJar = inflight[r].jar

\* C21: a call to an auth-required URL carries the crumb query parameter
\* exactly when the crumb its authentication obtained is non-empty, and the
\* parameter is that crumb
C21_CrumbParamIffObtained ==
    \A r \in Callers :
        inflight[r].pc = "sent" =>
            /\ inflight[r].attached # NULL <=> inflight[r].crumb \notin {NULL, ""}
            /\ inflight[r].attached # NULL => inflight[r].attached = inflight[r].crumb

(***************************************************************************)
(* Claims about the strategies and the pacing of calls.                    *)
(***************************************************************************)
\* the basic strategy's crumb endpoint has answered with the rate-limit
\* page or with an empty body, and _getCrumbBasic goes on from there
BasicCrumbRefused ==
    /\ auth.pc = "basic.crumb"
    /\ auth'.pc # "basic.crumb"
    /\ ret.kind = "response"
    /\ IsRateLimited(ret.body) \/ ret.body = ""

\* C22: when the crumb endpoint of the basic strategy answers with the
\* rate-limit page or an empty body, the strategy has failed: run first, it
\* is followed by the csrf strategy; run as the fallback, it leaves no crumb
C22_BasicFailsOnRefusal ==
    [][BasicCrumbRefused =>
            IF auth.first
            THEN auth'.pc = "csrf.consent" /\ auth'.strategy = "csrf"
            ELSE crumb' = NULL]_vars

\* C23: every call handed to the network waited the pacing delay first
C23_PacedBeforeEveryCall ==
    outbound.issued => outbound.waited >= RateLimitDelay

\* the k-th wait of a request is retryDelay * k
Scaled(f) == \A k \in 1..Len(f.delays) : f.delays[k] = config.retryDelay * k

\* C30: every request, whatever its URL and its failures, waited
\* retryDelay * k before its k-th retry: one wait per failed attempt while
\* it goes on, at most `retries` of them, and none after the attempt whose
\* failure it surfaced
C30_BackoffScales ==
    /\ \A i \in 1..Len(stack) :
            /\ Scaled(stack[i])
            /\ Len(stack[i].delays) = stack[i].retries
            /\ Len(stack[i].delays) <= config.retries
    /\ Ended =>
            /\ Scaled(last.frame)
            /\ last.kind = "throw" => Len(last.frame.delays) = last.frame.calls - 1

C30_Witness ==
    /\ Ended /\ last.kind = "throw"
    /\ last.frame.url = UrlPage
    /\ config.retryDelay = 500
    /\ last.frame.delays = <<500, 1000, 1500>>
    /\ last.frame.calls = 4

(***************************************************************************)
(* Claims about the handshake, the inbound frames and the heartbeat.       *)
(***************************************************************************)
\* the handshake of socket id completes in this step
Opens(id) == sockets[id].state = "connecting" /\ sockets'[id].state = "open"

\* C24: when a socket's handshake completes the client is Connected, the
\* reconnect counter is 0, a heartbeat timer runs, one connect event (and
\* nothing else) is raised, and the connect() call waiting for this socket
\* is resolved
C24_OpenHandler ==
    [][\A id \in 1..Len(sockets) :
            Opens(id) =>
                /\ isConnected'
                /\ reconnectAttempts' = 0
                /\ heartbeatTimer' # 0
                /\ heartbeatTimer' \in heartbeats'
                /\ emitted' = <<EvConnect>>
                /\ sockets[id].promise = "pending" => sockets'[id].promise = "resolved"]_vars

\* a reconnect attempt made by a timer has succeeded
C24_Witness ==
    /\ emitted = <<EvConnect>>
    /\ isConnected
    /\ reconnectAttempts = 0
    /\ heartbeatTimer \in heartbeats
    /\ \E id \in 1..Len(sockets) :
            /\ sockets[id].state = "open"
            /\ sockets[id].caller = "timer"
            /\ sockets[id].promise = "resolved"
            /\ heartbeatTimer = id

\* the connection timeout of socket id's connect() fires in this step while
\* the handshake of that socket is still under way
TimesOut(id) ==
    /\ sockets[id].timeout
    /\ ~sockets'[id].timeout
    /\ sockets[id].state = "connecting"
    /\ ~sockets[id].errored
    /\ ~sockets[id].aborted

\* C25: when the connection timeout fires on a socket whose handshake has
\* not completed, the connect() call that made the socket is rejected, the
\* socket is closed and the client is not Connected
C25_TimeoutFailsConnect ==
    [][\A id \in 1..Len(sockets) :
            TimesOut(id) =>
                /\ sockets'[id].promise = "rejected"
                /\ sockets'[id].aborted \/ sockets'[id].state \in {"closing", "closed"}
                /\ ~isConnected']_vars

\* a field of a frame, 0 when the frame leaves it out
Given(x) == IF x = undefined THEN 0 ELSE x

\* C26: a frame that parses and carries a price, 0 included, raises one
\* price event with the frame's symbol and price, and with the frame's
\* change and changePercent, or 0 for the one it leaves out
C26_PriceEventPerFrame ==
    (handled.got /\ handled.frame.parses /\ handled.frame.price # undefined) =>
        handled.events = <<PriceEvent(handled.frame.symbol, handled.frame.price,
                                      Given(handled.frame.change),
                                      Given(handled.frame.changePercent))>>

\* C27: a frame whose body does not parse makes the handler neither raise
\* nor emit anything, and leaves the subscription set and the connection
\* as they were
C27_MalformedFrameIgnored ==
    [][(handled'.got /\ ~handled'.frame.parses) =>
            /\ ~handled'.raised
            /\ handled'.events = <<>>
            /\ emitted' = <<>>
            /\ UNCHANGED <<subscribedSymbols, isConnected, ws, sockets>>]_vars

\* a malformed frame has arrived on a connected client with subscriptions
C27_Witness ==
    /\ handled.got
    /\ ~handled.frame.parses
    /\ ~handled.raised
    /\ isConnected
    /\ subscribedSymbols # <<>>

\* a heartbeat is handed to a socket in this step
HeartbeatSent == \E i \in 1..Len(sent') : sent'[i].op = "heartbeat"
\* the connection closes in this step, or disconnect() is called on a
\* connected client
ConnectionEnds ==
    \/ isConnected /\ ~isConnected'
    \/ \E id \in 1..Len(sockets) : sockets'[id].waiting > sockets[id].waiting

\* C28: a heartbeat is sent only by a connected client whose socket is
\* open, and when the connection closes or disconnect() is called no
\* heartbeat timer is left running
C28_HeartbeatWhileConnected ==
    [][/\ HeartbeatSent => (isConnected /\ ws # 0 /\ sockets[ws].state = "open")
       /\ ConnectionEnds => heartbeats' = {}]_vars

\* the messages of a sequence of events
Tags(events) == [i \in 1..Len(events) |-> tag(events[i])]
\* the settled value generator g is about to yield
Held(g) == IF generators[g].pc = "settled" THEN <<generators[g].value>> ELSE <<>>
\* everything the consumers of generators 1..g have or are about to have
RECURSIVE Received(_)
Received(g) == IF g = 0 THEN <<>> ELSE Received(g - 1) \o delivered[g] \o Held(g)
Count(messages, m) == Cardinality({i \in 1..Len(messages) : messages[i] = m})
\* generator g is the only one a consumer ever asked
SingleConsumer(g) ==
    \A h \in Generators \ {g} : generators[h] = Idle /\ delivered[h] = <<>>
\* the event emitted in this step went to the oldest waiter, or to the
\* queue if nobody waited
HandedOver ==
    underlying' # underlying =>
        LET m == tag(underlying'[Len(underlying')]) IN
        IF resolveQueue # <<>>
        THEN /\ generators'[Head(resolveQueue)] = [pc |-> "settled", value |-> m]
             /\ resolveQueue' = Tail(resolveQueue)
             /\ messageQueue' = messageQueue
        ELSE /\ messageQueue' = Append(messageQueue, m)
             /\ UNCHANGED <<resolveQueue, generators>>
NeverBoth == messageQueue = <<>> \/ resolveQueue = <<>>
ExactlyOnce ==
    \A ev \in BridgeEvents :
        Count(Received(MaxGenerators) \o messageQueue, tag(ev)) = Count(Tags(underlying), tag(ev))
InOrder ==
    \A g \in Generators :
        SingleConsumer(g) => delivered[g] \o Held(g) \o messageQueue = Tags(underlying)

\* C29: each event the wrapped client emits becomes one tagged message, given
\* to the oldest waiting request or else appended to the queue; a single
\* consumer receives the messages in the order of their events, every
\* message is delivered once, and the queue and the waiter list are never
\* both non-empty
C29_BridgeDelivers ==
    [][HandedOver /\ NeverBoth' /\ ExactlyOnce' /\ InOrder']_vars
\* a single consumer has received two different messages and waits for a
\* third
C29_Witness ==
    /\ SingleConsumer(1)
    /\ Len(delivered[1]) = 2
    /\ delivered[1][1] # delivered[1][2]
    /\ resolveQueue = <<1>>

\* C31: when the send of a subscribe message throws, subscribe() rejects
\* with that error and the symbol is not added; the symbols a subscribe()
\* call adds are exactly those whose message it handed to the socket
C31_FailedSendNotAdded ==
    [][(called'.op = "subscribe" /\ isConnected /\ ws # 0) =>
        LET before == Range(subscribedSymbols)
            new == Range(called'.symbols) \ before IN
        /\ Range(subscribedSymbols') = before \cup SentSymbols(sent')
        /\ \A i \in 1..Len(sent') : sent'[i].op = "subscribe" /\ sent'[i].socket = ws
        /\ (SendThrows(ws) /\ new # {}) =>
              /\ called'.thrown = SendError
              /\ new \cap Range(subscribedSymbols') = {}
        /\ called'.thrown # "" => (SendThrows(ws) /\ new # {})
      ]_vars

C31_Witness ==
    /\ isConnected
    /\ ws # 0
    /\ SendThrows(ws)
    /\ called = [op |-> "subscribe", symbols |-> <<"GOOGL", "AAPL">>, thrown |-> SendError]
    /\ sent = <<>>
    /\ subscribedSymbols = <<>>

\* the failing attempt on top of the stack clears the crumb and the cookies
\* in this step
ClearsAuthentication ==
    /\ stack # <<>>
    /\ Len(stack') = Len(stack)
    /\ Top'.cleared > Top.cleared

ClosesAfterReject(id) ==
    /\ sockets[id].state # "closed"
    /\ sockets'[id].state = "closed"
    /\ sockets[id].caller = "timer"
    /\ sockets[id].promise = "rejected"

\* C33: at most one reconnect timer is pending at any time, and the close
\* event of a failed reconnect attempt, whose rejection has already
\* scheduled the next attempt, schedules nothing and leaves the counter
C33_OneReconnectPending ==
    /\ [](Cardinality(Pending(rtimers)) <= 1)
    /\ [][\A id \in 1..Len(sockets) :
            (ClosesAfterReject(id) /\ options.autoReconnect)
                => /\ rtimers' = rtimers
                   /\ reconnectAttempts' = reconnectAttempts]_vars

\* the sockets whose handshake is under way or done
OpenOrPending == {id \in 1..Len(sockets) : sockets[id].state \in {"connecting", "open"}}

\* C34: the client holds at most one socket that is open or in its
\* handshake, and isConnected is true exactly when the socket this.ws names
\* is open (or closing, its close event not yet delivered)
C34_OneConnection ==
    /\ Cardinality(OpenOrPending) <= 1
    /\ isConnected <=> (ws # 0 /\ sockets[ws].state \in {"open", "closing"})

\* the connection timeout started by the connect() call that made socket id
\* fires in this step
TimeoutFires(id) == sockets[id].timeout /\ ~sockets'[id].timeout

\* C35: the connection timeout of a connect() call leaves every socket but
\* the one the call made alone, and does nothing once the handshake of its
\* own socket has completed
C35_TimeoutOwnSocketOnly ==
    [][\A id \in 1..Len(sockets) :
            TimeoutFires(id) =>
                /\ \A j \in 1..Len(sockets) : j # id => sockets'[j] = sockets[j]
                /\ sockets[id].state # "connecting"
                      => sockets' = [sockets EXCEPT ![id].timeout = FALSE]]_vars

\* the disconnect events raised in this step
Disconnects == {i \in 1..Len(emitted') : emitted'[i].type = "disconnect"}

\* C36: a closure raises exactly one disconnect event, and the closure that
\* answers disconnect() raises exactly one, with code 1000
C36_OneDisconnectEvent ==
    [][CloseStep =>
        /\ Cardinality(Disconnects) = 1
        /\ returned' > 0 => \A i \in Disconnects : emitted'[i].code = NormalClosure]_vars

\* C37: while the client is connected on an open socket, the server was
\* asked on that socket for every symbol getSubscribedSymbols() reports,
\* and a subscribe() call that does not throw sends a subscribe message for
\* every symbol of its list the socket was not asked for
C37_SubscriptionsFollowConnection ==
    /\ []((isConnected /\ ws # 0 /\ sockets[ws].state = "open")
            => Range(subscribedSymbols) \subseteq sockets[ws].asked)
    /\ [][(/\ called'.op = "subscribe"
           /\ called'.thrown = ""
           /\ isConnected /\ ws # 0 /\ sockets[ws].state = "open")
            => Range(called'.symbols) \ sockets[ws].asked \subseteq SentSymbols(sent')]_vars

\* C38: a client built with retries: 0 makes one attempt for a request that
\* fails with a transient error and does not retry
C38_ZeroRetriesHonoured ==
    config.given = 0 =>
        /\ Running => stack[1].calls <= 1
        /\ (/\ Ended
            /\ last.kind = "throw"
            /\ last.frame.only \in Errors
            /\ shouldRetry(last.frame.only))
              => last.frame.calls = 1

\* the endpoints the two strategies request
AuthUrls == {UrlFc, UrlCrumb1, UrlConsent, UrlCollect, UrlCopy, UrlCrumb2}

\* C39: no request of a strategy needs authentication itself, so an
\* acquisition never starts inside another one: below a caller's request
\* there is at most one request, to a strategy endpoint, that acquires
\* nothing; an acquisition runs each strategy at most once; a makeRequest call
\* runs at most retries + 1 acquisitions and issues at most retries + 1
\* network calls of its own; and every request returns or fails
C39_AcquisitionTerminates ==
    /\ [](/\ \A url \in AuthUrls : ~isYahooFinanceApiRequest(url)
          /\ Len(stack) <= 2
          /\ \A i \in 2..Len(stack) :
                /\ stack[i].url \in AuthUrls
                /\ stack[i].pc # "auth"
                /\ stack[i].acquisitions = 0
          /\ \A i \in 1..Len(stack) :
                /\ stack[i].acquisitions <= config.retries + 1
                /\ stack[i].calls <= config.retries + 1
          /\ Len(auth.runs) <= 2
          /\ Len(auth.runs) = 2 => auth.runs[1] # auth.runs[2]
          /\ Ended => last.frame.acquisitions <= config.retries + 1)
    /\ (stack # <<>>) ~> (stack = <<>>)

\* a request for an auth-required URL ended after retries + 1 acquisitions
C39_Witness ==
    /\ Ended
    /\ isYahooFinanceApiRequest(last.frame.url)
    /\ last.frame.acquisitions = config.retries + 1
    /\ last.frame.calls = config.retries + 1

\* the response of the request under way arrives and the jar is saved
Saves == exchange.phase = "sent" /\ exchange'.phase = "done"

\* C40: when a client that has not read the cookie file saves its jar, every
\* cookie the file held is still in the file, unless the jar holds a cookie
\* of the same domain and name that replaces it
C40_PersistedCookiesKept ==
    [][(Saves /\ reads = 0) =>
        \A l \in cookieFile :
            \/ l \in cookieFile'
            \/ \E c \in cookieJar' : c.domain = l.domain /\ c.name = l.name]_vars

====
